---- MODULE Spec2Model ----
(***************************************************************************)
(* A model of the command-definition interpreter of anything-sh            *)
(* (src/index.js, final iteration, lines 153-356): the placeholder         *)
(* resolver, the path extractor, the response formatter, the session       *)
(* store, the request executor (makeRequest) and the CLI registrar         *)
(* (setupCLI).                                                             *)
(*                                                                         *)
(* A JavaScript string is the sequence of its UTF-16 code units, as the    *)
(* language defines it: U("abc") is <<97, 98, 99>>, and length, substring  *)
(* and concatenation are Len, SubSeq and \o.  The regular expressions of   *)
(* the source are modelled by scanning the code units.  A JavaScript value *)
(* is a tagged record (Undefined, Null, Bool, Num, Str, Obj, Arr, Fn,      *)
(* Proto); a number is held by the text String gives it, which JSON.parse  *)
(* computes from the double nearest to the number written.  An object is   *)
(* the sequence of its own properties in the order Object.keys and         *)
(* JSON.stringify use: array indexes in ascending order, then the other    *)
(* keys in insertion order.  A property read also answers for what the     *)
(* value inherits from the built-in prototypes.                            *)
(***************************************************************************)
EXTENDS Integers, Sequences, FiniteSets, TLC

VARIABLES
    config,      \* the parsed configuration document (loadConfig)
    fileStore,   \* the session store file: [exists, data]
    pc,          \* where the current process is
    cur,         \* the running invocation: command, args, updatedVariables
    request,     \* the HTTP requests handed to axios by this invocation
    out,         \* what this invocation wrote to the console
    saves,       \* the objects this invocation passed to saveConfigStore
    spawned,     \* the shell commands this invocation passed to exec
    nInv,        \* invocations started so far
    root,        \* path extractor under test: the root structure
    path,        \* path extractor under test: the path
    extracted,   \* path extractor under test: the outcome
    cmdNames,    \* registrar under test: Object.keys(config.commands)
    regIdx,      \* registrar under test: commands already visited by forEach
    registry,    \* registrar under test: what has been registered so far
    loaded,      \* session store under test: what loadConfigStore returned
    lastSaved,   \* session store under test: what saveConfigStore was given
    procs        \* concurrent invocations: the state of each process

vars == <<config, fileStore, pc, cur, request, out, saves, spawned, nInv,
          root, path, extracted, cmdNames, regIdx, registry, loaded, lastSaved,
          procs>>

execVars == <<config, fileStore, pc, cur, request, out, saves, spawned, nInv>>
pathVars == <<root, path, extracted>>
cliVars == <<cmdNames, regIdx, registry>>
storeVars == <<loaded, lastSaved>>
raceVars == <<procs>>

(***************************************************************************)
(* Characters and character classes of the regular expressions.            *)
(***************************************************************************)
Char(s, i) == SubSeq(s, i, i)

From(s, i) == SubSeq(s, i, Len(s))

\* The JavaScript string a literal of this module spells: the sequence of
\* the codes of its characters, which are letters, digits, the space, marks
\* of ASCII, and the tab, line feed, form feed and carriage return.
U(text) ==
    LET Code(c) ==
            CASE c = "a" -> 97 [] c = "b" -> 98 [] c = "c" -> 99 [] c = "d" -> 100 [] c = "e" -> 101
              [] c = "f" -> 102 [] c = "g" -> 103 [] c = "h" -> 104 [] c = "i" -> 105 [] c = "j" -> 106
              [] c = "k" -> 107 [] c = "l" -> 108 [] c = "m" -> 109 [] c = "n" -> 110 [] c = "o" -> 111
              [] c = "p" -> 112 [] c = "q" -> 113 [] c = "r" -> 114 [] c = "s" -> 115 [] c = "t" -> 116
              [] c = "u" -> 117 [] c = "v" -> 118 [] c = "w" -> 119 [] c = "x" -> 120 [] c = "y" -> 121
              [] c = "z" -> 122 [] c = "A" -> 65 [] c = "B" -> 66 [] c = "C" -> 67 [] c = "D" -> 68
              [] c = "E" -> 69 [] c = "F" -> 70 [] c = "G" -> 71 [] c = "H" -> 72 [] c = "I" -> 73
              [] c = "J" -> 74 [] c = "K" -> 75 [] c = "L" -> 76 [] c = "M" -> 77 [] c = "N" -> 78
              [] c = "O" -> 79 [] c = "P" -> 80 [] c = "Q" -> 81 [] c = "R" -> 82 [] c = "S" -> 83
              [] c = "T" -> 84 [] c = "U" -> 85 [] c = "V" -> 86 [] c = "W" -> 87 [] c = "X" -> 88
              [] c = "Y" -> 89 [] c = "Z" -> 90 [] c = "0" -> 48 [] c = "1" -> 49 [] c = "2" -> 50
              [] c = "3" -> 51 [] c = "4" -> 52 [] c = "5" -> 53 [] c = "6" -> 54 [] c = "7" -> 55
              [] c = "8" -> 56 [] c = "9" -> 57 [] c = " " -> 32 [] c = "!" -> 33 [] c = "\"" -> 34
              [] c = "#" -> 35 [] c = "$" -> 36 [] c = "%" -> 37 [] c = "&" -> 38 [] c = "'" -> 39
              [] c = "(" -> 40 [] c = ")" -> 41 [] c = "*" -> 42 [] c = "+" -> 43 [] c = "," -> 44
              [] c = "-" -> 45 [] c = "." -> 46 [] c = "/" -> 47 [] c = ":" -> 58 [] c = ";" -> 59
              [] c = "<" -> 60 [] c = "=" -> 61 [] c = ">" -> 62 [] c = "?" -> 63 [] c = "@" -> 64
              [] c = "[" -> 91 [] c = "\\" -> 92 [] c = "]" -> 93 [] c = "^" -> 94 [] c = "_" -> 95
              [] c = Char("`'", 1) -> 96 [] c = "{" -> 123 [] c = "|" -> 124 [] c = "}" -> 125 [] c = "~" -> 126
              [] c = "\t" -> 9 [] c = "\n" -> 10 [] c = "\f" -> 12 [] c = "\r" -> 13
    IN  SubSeq([i \in 1..Len(text) |-> Code(Char(text, i))], 1, Len(text))

\* The JavaScript string s is the one the literal spells: s = U(text).
Is(s, text) ==
    LET Ascii == " !\"#$%&'()*+,-./0123456789:;<=>?@ABCDEFGHIJKLMNOPQRSTUVWXYZ[\\]^_"
                     \o Char("`'", 1) \o "abcdefghijklmnopqrstuvwxyz{|}~"
        Letter(c) ==
            IF 32 <= c /\ c <= 126 THEN Char(Ascii, c - 31)
            ELSE IF c = 9 THEN "\t" ELSE IF c = 10 THEN "\n"
            ELSE IF c = 12 THEN "\f" ELSE IF c = 13 THEN "\r" ELSE ""
    IN  /\ Len(s) = Len(text)
        /\ \A i \in 1..Len(s) : Letter(s[i]) = Char(text, i)

\* [a-zA-Z_]
NameChars == { <<c>> : c \in (97..122) \cup (65..90) \cup {95} }

\* [0-9]
Digits == { <<c>> : c \in 48..57 }

\* The first position in lo..hi of s that holds a character of class (inside
\* = TRUE) or a character outside it (inside = FALSE); 0 when there is none.
\* The range is halved at each step, so that the depth of the evaluation
\* grows with the logarithm of the length.
RECURSIVE First(_, _, _, _, _)
First(s, lo, hi, class, inside) ==
    IF lo > hi THEN 0
    ELSE IF lo = hi THEN (IF (Char(s, lo) \in class) = inside THEN lo ELSE 0)
    ELSE LET mid == (lo + hi) \div 2
             left == First(s, lo, mid, class, inside)
         IN  IF left # 0 THEN left ELSE First(s, mid + 1, hi, class, inside)

\* The length of the longest prefix of s made of characters of class.
RunLen(s, class) ==
    LET i == First(s, 1, Len(s), class, FALSE) IN IF i = 0 THEN Len(s) ELSE i - 1

StartsWith(s, p) == Len(s) >= Len(p) /\ SubSeq(s, 1, Len(p)) = p

\* Position of the first occurrence of character c in s, 0 when there is none.
IndexOf(s, c) == First(s, 1, Len(s), {c}, TRUE)

\* s.replace(/c/g, ''): every occurrence of character c removed.
RECURSIVE StripAll(_, _)
StripAll(s, c) ==
    LET i == IndexOf(s, c) IN
    IF i = 0 THEN s ELSE SubSeq(s, 1, i - 1) \o StripAll(From(s, i + 1), c)

\* s.split(sep) for a one-character separator.
RECURSIVE Split(_, _)
Split(s, sep) ==
    LET i == IndexOf(s, sep) IN
    IF i = 0 THEN <<s>>
    ELSE <<SubSeq(s, 1, i - 1)>> \o Split(From(s, i + 1), sep)

(***************************************************************************)
(* Numbers as text.  A JavaScript number is kept as the text String(n)     *)
(* gives for it, which is what the program ever does with one.             *)
(***************************************************************************)
DigitValue(c) == c[1] - 48

\* String(n) for a natural number n.
RECURSIVE NatString(_)
NatString(n) ==
    IF n < 10 THEN <<48 + n>>
    ELSE NatString(n \div 10) \o NatString(n % 10)

\* The number a short text of digits spells.
RECURSIVE NatValue(_)
NatValue(s) ==
    IF s = <<>> THEN 0
    ELSE 10 * NatValue(SubSeq(s, 1, Len(s) - 1)) + DigitValue(Char(s, Len(s)))

\* a < b for two canonical numeric strings: the shorter one, or of two of
\* the same length the one with the smaller digit where they first differ.
IndexLess(a, b) ==
    \/ Len(a) < Len(b)
    \/ /\ Len(a) = Len(b)
       /\ \E i \in 1..Len(a) :
              /\ SubSeq(a, 1, i - 1) = SubSeq(b, 1, i - 1)
              /\ DigitValue(Char(a, i)) < DigitValue(Char(b, i))

\* k is an array index: a canonical numeric string up to 2^32 - 2.  Such
\* keys come first, in ascending order, among the own keys of an object.
IsIndex(k) ==
    /\ k # <<>>
    /\ First(k, 1, Len(k), Digits, FALSE) = 0
    /\ Is(k, "0") \/ ~Is(Char(k, 1), "0")
    /\ ~IndexLess(U("4294967294"), k)

(***************************************************************************)
(* JavaScript values.                                                      *)
(***************************************************************************)
Undefined == [t |-> "undefined"]
Null == [t |-> "null"]
Bool(b) == [t |-> "boolean", b |-> b]
\* A number, by the text String gives for it.
Num(s) == [t |-> "number", s |-> s]
Str(s) == [t |-> "string", s |-> s]
\* A plain object, by its own properties in the order of Object.keys.
Obj(o) == [t |-> "object", o |-> o]
Arr(a) == [t |-> "array", a |-> a]
\* A built-in function, by its name and its length.
Fn(name, length) == [t |-> "function", name |-> name, length |-> length]
\* The prototype object of a built-in constructor.
Proto(of) == [t |-> "prototype", of |-> of]
\* What a throw leaves in place of a value.
TypeError == [t |-> "TypeError"]
SyntaxError == [t |-> "SyntaxError"]

IsUndefined(v) == v.t = "undefined"

IsNullish(v) == v.t \in {"undefined", "null"}

IsThrow(v) == v.t \in {"TypeError", "SyntaxError"}

Prop(k, v) == [k |-> k, v |-> v]

\* The own property k of the property list o, Undefined when it has none.
RECURSIVE Own(_, _)
Own(o, k) ==
    IF o = <<>> THEN Undefined
    ELSE IF Head(o).k = k THEN Head(o).v
    ELSE Own(Tail(o), k)

\* Object.prototype.hasOwnProperty.call(o, k)
HasKey(o, k) == \E i \in 1..Len(o) : o[i].k = k

\* CreateDataProperty(o, k, v), as an object literal, a spread and JSON.parse
\* do it: an existing key keeps its place, a new array index goes among the
\* indexes in ascending order, any other new key goes last.
Define(o, k, v) ==
    IF HasKey(o, k)
    THEN [i \in 1..Len(o) |-> IF o[i].k = k THEN Prop(k, v) ELSE o[i]]
    ELSE IF IsIndex(k)
    THEN LET Put(before) ==
                 SubSeq(o, 1, before) \o <<Prop(k, v)>> \o SubSeq(o, before + 1, Len(o))
         IN  Put(Cardinality({ i \in 1..Len(o) :
                                   IsIndex(o[i].k) /\ IndexLess(o[i].k, k) }))
    ELSE Append(o, Prop(k, v))

RECURSIVE DefineAll(_, _)
DefineAll(acc, props) ==
    IF props = <<>> THEN acc
    ELSE DefineAll(Define(acc, Head(props).k, Head(props).v), Tail(props))

\* The object a document writes as the members o: its own properties in the
\* order of Object.keys, a key written twice holding its last value.
Ordered(o) == DefineAll(<<>>, o)

\* o[k] = v for a primitive v: an own key is written; __proto__ is the
\* setter of Object.prototype, which ignores a primitive; any other key is
\* created.
Assign(o, k, v) ==
    IF ~HasKey(o, k) /\ Is(k, "__proto__") THEN o ELSE Define(o, k, v)

\* { ...a, ...b }
Spread(a, b) == DefineAll(DefineAll(<<>>, a), b)

\* Object.keys(o)
Keys(o) == LET p == Ordered(o) IN [i \in 1..Len(p) |-> p[i].k]

(***************************************************************************)
(* What every value inherits.  The methods of the built-in prototypes and  *)
(* constructors, by length: the first set holds those of length 0.         *)
(***************************************************************************)
Methods(of) ==
    CASE of = "Object" ->
             << {"toString", "valueOf", "toLocaleString"},
                {"hasOwnProperty", "isPrototypeOf", "propertyIsEnumerable",
                 "__lookupGetter__", "__lookupSetter__"},
                {"__defineGetter__", "__defineSetter__"} >>
      [] of = "Function" -> << {"toString"}, {"bind", "call"}, {"apply"} >>
      [] of = "String" ->
             << {"toString", "valueOf", "toLowerCase", "toUpperCase",
                 "toLocaleLowerCase", "toLocaleUpperCase", "trim", "trimStart",
                 "trimEnd", "trimLeft", "trimRight", "normalize", "isWellFormed",
                 "toWellFormed", "big", "blink", "bold", "fixed", "italics",
                 "small", "strike", "sub", "sup"},
                {"at", "charAt", "charCodeAt", "codePointAt", "concat", "endsWith",
                 "includes", "indexOf", "lastIndexOf", "localeCompare", "match",
                 "matchAll", "padEnd", "padStart", "repeat", "search",
                 "startsWith", "anchor", "fontcolor", "fontsize", "link"},
                {"replace", "replaceAll", "slice", "split", "substr", "substring"} >>
      [] of = "Array" ->
             << {"toString", "toLocaleString", "entries", "keys", "values", "flat",
                 "pop", "shift", "reverse", "toReversed"},
                {"at", "concat", "every", "fill", "filter", "find", "findIndex",
                 "findLast", "findLastIndex", "flatMap", "forEach", "includes",
                 "indexOf", "join", "lastIndexOf", "map", "push", "reduce",
                 "reduceRight", "some", "sort", "toSorted", "unshift"},
                {"copyWithin", "slice", "splice", "toSpliced", "with"} >>
      [] of = "Number" ->
             << {"valueOf", "toLocaleString"},
                {"toString", "toFixed", "toExponential", "toPrecision"} >>
      [] of = "Boolean" -> << {"toString", "valueOf"} >>

\* The static methods of a built-in constructor, by length.
Statics(of) ==
    CASE of = "Object" ->
             << {},
                {"entries", "freeze", "fromEntries", "getOwnPropertyDescriptors",
                 "getOwnPropertyNames", "getOwnPropertySymbols", "getPrototypeOf",
                 "isExtensible", "isFrozen", "isSealed", "keys",
                 "preventExtensions", "seal", "values"},
                {"assign", "create", "defineProperties", "getOwnPropertyDescriptor",
                 "hasOwn", "is", "setPrototypeOf"},
                {"defineProperty"} >>
      [] of = "String" -> << {}, {"fromCharCode", "fromCodePoint", "raw"} >>
      [] of = "Array" -> << {"of"}, {"from", "isArray"} >>
      [] of = "Number" ->
             << {}, {"isFinite", "isInteger", "isNaN", "isSafeInteger", "parseFloat"},
                {"parseInt"} >>
      [] OTHER -> << >>

IsMethod(table, k) == \E a \in 1..Len(table) : \E m \in table[a] : Is(k, m)

\* The function a method key of a table holds, by its name and length:
\* trimLeft and trimRight are the functions trimStart and trimEnd.
BuiltIn(table, k) ==
    Fn(IF Is(k, "trimLeft") THEN U("trimStart")
       ELSE IF Is(k, "trimRight") THEN U("trimEnd")
       ELSE k,
       (CHOOSE a \in 1..Len(table) : \E m \in table[a] : Is(k, m)) - 1)

\* The property k an instance of the constructor of inherits: from the
\* prototype of the constructor, then from Object.prototype.
Inherited(of, k) ==
    IF Is(k, "__proto__") THEN Proto(of)
    ELSE IF Is(k, "constructor") THEN Fn(U(of), 1)
    ELSE IF IsMethod(Methods(of), k) THEN BuiltIn(Methods(of), k)
    ELSE IF IsMethod(Methods("Object"), k) THEN BuiltIn(Methods("Object"), k)
    ELSE Undefined

\* The property k of the prototype object of a constructor.  The accessors
\* caller and arguments of Function.prototype throw.
PrototypeMember(of, k) ==
    IF Is(k, "__proto__") THEN (IF of = "Object" THEN Null ELSE Proto("Object"))
    ELSE IF Is(k, "length") /\ of \in {"Function", "String", "Array"} THEN Num(U("0"))
    ELSE IF Is(k, "name") /\ of = "Function" THEN Str(<<>>)
    ELSE IF (Is(k, "caller") \/ Is(k, "arguments")) /\ of = "Function" THEN TypeError
    ELSE Inherited(of, k)

\* The property k of a built-in function; the constructors have a
\* prototype and static methods, and Number its constants.
FunctionMember(f, k) ==
    LET Constructors == {"Object", "Function", "String", "Array", "Number", "Boolean"}
        IsConstructor == \E c \in Constructors : Is(f.name, c)
        of == CHOOSE c \in Constructors : Is(f.name, c)
        NumberConstants ==
            << Prop("EPSILON", "2.220446049250313e-16"),
               Prop("MAX_SAFE_INTEGER", "9007199254740991"),
               Prop("MAX_VALUE", "1.7976931348623157e+308"),
               Prop("MIN_SAFE_INTEGER", "-9007199254740991"),
               Prop("MIN_VALUE", "5e-324"),
               Prop("NaN", "NaN"),
               Prop("NEGATIVE_INFINITY", "-Infinity"),
               Prop("POSITIVE_INFINITY", "Infinity") >>
        IsConstant(i) == Is(f.name, "Number") /\ Is(k, NumberConstants[i].k)
    IN  IF Is(k, "name") THEN Str(f.name)
        ELSE IF Is(k, "length") THEN Num(NatString(f.length))
        ELSE IF Is(k, "caller") \/ Is(k, "arguments") THEN TypeError
        ELSE IF IsConstructor /\ Is(k, "prototype") THEN Proto(of)
        ELSE IF IsConstructor /\ IsMethod(Statics(of), k) THEN BuiltIn(Statics(of), k)
        ELSE IF \E i \in 1..Len(NumberConstants) : IsConstant(i)
        THEN Num(U(NumberConstants[CHOOSE i \in 1..Len(NumberConstants) : IsConstant(i)].v))
        ELSE Inherited("Function", k)

\* acc[part] for any value acc: its own property, an element of a string
\* or an array, else what it inherits; TypeError when acc is undefined or
\* null.
Member(acc, part) ==
    LET IsElement(n) == IsIndex(part) /\ Len(part) <= 9 /\ NatValue(part) < n
    IN  CASE acc.t = "object" ->
                 IF HasKey(acc.o, part) THEN Own(acc.o, part)
                 ELSE Inherited("Object", part)
          [] acc.t = "array" ->
                 IF Is(part, "length") THEN Num(NatString(Len(acc.a)))
                 ELSE IF IsElement(Len(acc.a)) THEN acc.a[NatValue(part) + 1]
                 ELSE Inherited("Array", part)
          [] acc.t = "string" ->
                 IF Is(part, "length") THEN Num(NatString(Len(acc.s)))
                 ELSE IF IsElement(Len(acc.s)) THEN Str(Char(acc.s, NatValue(part) + 1))
                 ELSE Inherited("String", part)
          [] acc.t = "number" -> Inherited("Number", part)
          [] acc.t = "boolean" -> Inherited("Boolean", part)
          [] acc.t = "function" -> FunctionMember(acc, part)
          [] acc.t = "prototype" -> PrototypeMember(acc.of, part)
          [] OTHER -> TypeError

\* o[k] on a plain object with the own properties o.
Lookup(o, k) == Member(Obj(o), k)

\* JavaScript truthiness.
Truthy(v) ==
    CASE v.t \in {"undefined", "null"} -> FALSE
      [] v.t = "boolean" -> v.b
      [] v.t = "number" -> ~Is(v.s, "0") /\ ~Is(v.s, "NaN")
      [] v.t = "string" -> v.s # <<>>
      [] OTHER -> TRUE

\* String(v), as String.prototype.replace applies it to a callback's result:
\* Str(text), or TypeError.  An object with an own toString that is no
\* function cannot be converted.
RECURSIVE String(_)
\* Array.prototype.join of the elements: undefined and null give the empty
\* string; the throw of an element is kept.
RECURSIVE JoinElements(_)
JoinElements(a) ==
    LET Element(v) == IF IsNullish(v) THEN Str(<<>>) ELSE String(v)
        Concat(x, y) ==
            IF IsThrow(x) THEN x ELSE IF IsThrow(y) THEN y ELSE Str(x.s \o U(",") \o y.s)
    IN  IF a = <<>> THEN Str(<<>>)
        ELSE IF Len(a) = 1 THEN Element(a[1])
        ELSE Concat(Element(a[1]), JoinElements(Tail(a)))

String(v) ==
    CASE v.t = "string" -> v
      [] v.t = "undefined" -> Str(U("undefined"))
      [] v.t = "null" -> Str(U("null"))
      [] v.t = "boolean" -> Str(IF v.b THEN U("true") ELSE U("false"))
      [] v.t = "number" -> Str(v.s)
      [] v.t = "object" ->
             IF HasKey(v.o, U("toString")) THEN TypeError ELSE Str(U("[object Object]"))
      [] v.t = "array" -> JoinElements(v.a)
      [] v.t = "function" -> Str(U("function ") \o v.name \o U("() { [native code] }"))
      [] v.t = "prototype" ->
             Str(CASE v.of = "Function" -> U("function () { [native code] }")
                   [] v.of = "Number" -> U("0")
                   [] v.of = "Boolean" -> U("false")
                   [] v.of \in {"String", "Array"} -> <<>>
                   [] OTHER -> U("[object Object]"))
      [] OTHER -> v

\* The own enumerable properties a spread copies from a value.
Props(v) ==
    CASE v.t = "object" -> v.o
      [] v.t = "array" -> [i \in 1..Len(v.a) |-> Prop(NatString(i - 1), v.a[i])]
      [] v.t = "string" -> [i \in 1..Len(v.s) |-> Prop(NatString(i - 1), Str(Char(v.s, i)))]
      [] OTHER -> << >>

(***************************************************************************)
(* Path Extractor, Placeholder Resolver, Response Formatter.               *)
(***************************************************************************)
\* One step of the reduce callback of getNestedProperty:
\*   acc && acc[part] !== undefined ? acc[part] : acc[part.replace(/-/g, '')]
\* The else branch reads a property of acc whatever acc is, so it throws a
\* TypeError when acc is undefined or null.
PathStep(acc, part) ==
    IF IsThrow(acc) THEN acc
    ELSE IF IsNullish(acc) THEN TypeError
    ELSE IF Truthy(acc) /\ ~IsUndefined(Member(acc, part)) THEN Member(acc, part)
    ELSE Member(acc, StripAll(part, U("-")))

RECURSIVE Reduce(_, _)
Reduce(acc, parts) ==
    IF parts = <<>> THEN acc
    ELSE Reduce(PathStep(acc, Head(parts)), Tail(parts))

\* getNestedProperty(obj, path): a value, or TypeError when it throws.
getNestedProperty(obj, p) == Reduce(obj, Split(p, U(".")))

\* variables[name] || ''
OrEmpty(v) == IF Truthy(v) THEN v ELSE Str(<<>>)

\* The text before a match, the replacement and the rest of the result;
\* the throw of the replacement or of the rest when there is one.
Join(before, piece, rest) ==
    IF IsThrow(piece) THEN piece
    ELSE IF IsThrow(rest) THEN rest
    ELSE Str(before \o piece.s \o rest.s)

\* str.replace(/\$([a-zA-Z_]+)/g, (_, name) => variables[name] || ''):
\* Str(text), or TypeError when a value cannot be converted to a string.
RECURSIVE replaceVariables(_, _)
replaceVariables(str, variables) ==
    LET i == IndexOf(str, U("$"))
        n == RunLen(From(str, i + 1), NameChars)
    IN  IF i = 0 THEN Str(str)
        ELSE IF n > 0
        THEN Join(SubSeq(str, 1, i - 1),
                  String(OrEmpty(Lookup(variables, SubSeq(str, i + 1, i + n)))),
                  replaceVariables(From(str, i + n + 1), variables))
        ELSE Join(SubSeq(str, 1, i), Str(<<>>),
                  replaceVariables(From(str, i + 1), variables))

\* The length at which formatResponseValue cuts a string.
DisplayLimit == 50

\* formatResponseValue(value)
formatResponseValue(value) ==
    IF value.t = "string"
    THEN IF Len(value.s) > DisplayLimit
         THEN Str(SubSeq(value.s, 1, DisplayLimit) \o U("..."))
         ELSE value
    ELSE IF ~IsUndefined(value) THEN value ELSE Str(U("undefined"))

\* A set callback that formats the value the way the response callback does.
RawValueFormatted(value) == formatResponseValue(value)

\* The callback of a set template: value || ''.
RawValue(value) == OrEmpty(value)

DataPrefix == U("$data.")

\* template.replace(/\$data\.[a-zA-Z0-9_.-]+/g, match => ...) with the
\* callback of the response template (display = TRUE) or of a set template.
\* The result is Str(text), or TypeError when getNestedProperty throws or
\* the value cannot be converted to a string.
RECURSIVE replaceData(_, _, _)
replaceData(template, data, display) ==
    LET \* The length of the path the expression matches at the head of at,
        \* 0 when it does not match there.
        DataMatch(at) ==
            IF StartsWith(at, DataPrefix)
            THEN RunLen(From(at, Len(DataPrefix) + 1),
                        NameChars \cup Digits \cup {U("."), U("-")})
            ELSE 0
        \* What the callback returns for the extracted value, as text.
        Piece(value) ==
            IF IsThrow(value) THEN value
            ELSE IF display THEN String(formatResponseValue(value))
            ELSE String(RawValue(value))
        \* The text before a "$", a match of n characters of path at it or
        \* none, and the rest.
        ReplaceMatch(before, at, n) ==
            IF n = 0
            THEN Join(before, Str(U("$")), replaceData(From(at, 2), data, display))
            ELSE Join(before,
                      Piece(getNestedProperty(data, SubSeq(at, Len(DataPrefix) + 1,
                                                           Len(DataPrefix) + n))),
                      replaceData(From(at, Len(DataPrefix) + n + 1), data, display))
        Dollar(i) ==
            IF i = 0 THEN Str(template)
            ELSE ReplaceMatch(SubSeq(template, 1, i - 1), From(template, i),
                              DataMatch(From(template, i)))
    IN  Dollar(IndexOf(template, U("$")))
(***************************************************************************)
(* JSON.stringify and JSON.parse.                                          *)
(***************************************************************************)
\* The code four hexadecimal digits of either case spell.
HexValue(h) ==
    LET Digit(c) == IF c <= 57 THEN c - 48 ELSE IF c <= 70 THEN c - 55 ELSE c - 87
    IN  4096 * Digit(h[1]) + 256 * Digit(h[2]) + 16 * Digit(h[3]) + Digit(h[4])

\* The four hexadecimal digits of a code, in lower case.
Hex4(n) ==
    LET Digit(d) == IF d < 10 THEN 48 + d ELSE 87 + d
    IN  << Digit(n \div 4096), Digit((n \div 256) % 16), Digit((n \div 16) % 16),
           Digit(n % 16) >>

\* String.fromCharCode(code): the string of the one code unit.
CodeChar(code) == <<code>>

\* The code units JSON.stringify may escape inside a string: the quote, the
\* backslash, the control characters U+0000 to U+001F and the surrogates
\* U+D800 to U+DFFF.
Escaped == { <<c>> : c \in (0..31) \cup {34, 92} \cup (55296..57343) }

\* JSON string escaping of s.  A leading surrogate followed by a trailing
\* one is a character and is kept; a surrogate alone is escaped.
RECURSIVE Escape(_)
Escape(s) ==
    LET EscapeChar(c) ==
            CASE Is(c, "\"") -> U("\\\"")
              [] Is(c, "\\") -> U("\\\\")
              [] Is(c, "\n") -> U("\\n")
              [] Is(c, "\t") -> U("\\t")
              [] Is(c, "\r") -> U("\\r")
              [] Is(c, "\f") -> U("\\f")
              [] c = CodeChar(8) -> U("\\b")
              [] OTHER -> U("\\u") \o Hex4(c[1])
        i == First(s, 1, Len(s), Escaped, TRUE)
        paired == /\ i # 0 /\ i < Len(s)
                  /\ s[i] \in 55296..56319
                  /\ s[i + 1] \in 56320..57343
    IN  IF i = 0 THEN s
        ELSE IF paired THEN SubSeq(s, 1, i + 1) \o Escape(From(s, i + 2))
        ELSE SubSeq(s, 1, i - 1) \o EscapeChar(Char(s, i)) \o Escape(From(s, i + 1))

Quote(s) == U("\"") \o Escape(s) \o U("\"")

\* The JSON text of a value, "" for a value that has none.  gap is "" for
\* JSON.stringify(v) and two spaces for JSON.stringify(v, null, 2); indent
\* is the indentation of the value.
RECURSIVE Serialize(_, _, _)
\* The members of an object, between the braces: a member whose value has
\* no JSON text (undefined, a function) is left out.
RECURSIVE Members(_, _, _)
Members(o, gap, indent) ==
    LET MemberThen(key, value, rest) ==
            IF value = <<>> THEN rest
            ELSE key \o (IF gap = <<>> THEN U(":") ELSE U(": ")) \o value
                     \o (IF rest = <<>> THEN <<>>
                         ELSE (IF gap = <<>> THEN U(",") ELSE U(",\n") \o indent) \o rest)
    IN  IF o = <<>> THEN <<>>
        ELSE MemberThen(Quote(Head(o).k), Serialize(Head(o).v, gap, indent),
                        Members(Tail(o), gap, indent))

\* The elements of an array, between the brackets: an element whose value
\* has no JSON text is written null.
RECURSIVE Elements(_, _, _)
Elements(a, gap, indent) ==
    LET ElementThen(value, rest) ==
            (IF value = <<>> THEN U("null") ELSE value)
                \o (IF rest = <<>> THEN <<>>
                    ELSE (IF gap = <<>> THEN U(",") ELSE U(",\n") \o indent) \o rest)
    IN  IF a = <<>> THEN <<>>
        ELSE ElementThen(Serialize(Head(a), gap, indent),
                         Elements(Tail(a), gap, indent))

Serialize(v, gap, indent) ==
    LET Wrap(open, inner, close) ==
            IF inner = <<>> THEN open \o close
            ELSE IF gap = <<>> THEN open \o inner \o close
            ELSE open \o U("\n") \o indent \o gap \o inner \o U("\n") \o indent \o close
    IN  CASE v.t = "string" -> Quote(v.s)
          [] v.t = "number" ->
                 IF \E n \in {"NaN", "Infinity", "-Infinity"} : Is(v.s, n) THEN U("null") ELSE v.s
          [] v.t = "boolean" -> IF v.b THEN U("true") ELSE U("false")
          [] v.t = "null" -> U("null")
          [] v.t = "object" -> Wrap(U("{"), Members(Ordered(v.o), gap, indent \o gap), U("}"))
          [] v.t = "array" -> Wrap(U("["), Elements(v.a, gap, indent \o gap), U("]"))
          [] v.t = "prototype" ->
                 CASE v.of = "Function" -> <<>>
                   [] v.of = "Number" -> U("0")
                   [] v.of = "Boolean" -> U("false")
                   [] v.of = "String" -> U("\"\"")
                   [] v.of = "Array" -> U("[]")
                   [] OTHER -> U("{}")
          [] OTHER -> <<>>

\* JSON.stringify(value)
stringify(value) == Serialize(value, <<>>, <<>>)

\* JSON.stringify(value, null, 2)
stringifyPretty(value) == Serialize(value, U("  "), <<>>)

\* The position of the first character of s from i on that is no white
\* space JSON.parse accepts between tokens.
SkipWs(s, i) ==
    LET Whitespace == { <<c>> : c \in {32, 9, 10, 13} }
        j == First(s, i, Len(s), Whitespace, FALSE)
    IN  IF j = 0 THEN Len(s) + 1 ELSE j

\* The results of the parsing steps: whether the text is well formed so far,
\* the value read, and the position after it.
Fail(i) == [ok |-> FALSE, v |-> Undefined, next |-> i]

Done(v, next) == [ok |-> TRUE, v |-> v, next |-> next]

\* The characters of a string from position i up to its closing quote, after
\* acc: a control character is not allowed, a backslash starts an escape.
RECURSIVE ParseChars(_, _, _)
ParseChars(s, i, acc) ==
    LET IsHexDigit(c) == c[1] \in (48..57) \cup (65..70) \cup (97..102)
        \* The quote, the backslash and the control characters.
        Special == { <<c>> : c \in (0..31) \cup {34, 92} }
        \* The escape whose backslash is at position j, after the text read.
        ParseEscape(j, text) ==
            IF j + 1 > Len(s) THEN Fail(j)
            ELSE IF \E c \in {"\"", "\\", "/"} : Is(Char(s, j + 1), c)
            THEN ParseChars(s, j + 2, text \o Char(s, j + 1))
            ELSE IF Is(Char(s, j + 1), "n") THEN ParseChars(s, j + 2, text \o U("\n"))
            ELSE IF Is(Char(s, j + 1), "t") THEN ParseChars(s, j + 2, text \o U("\t"))
            ELSE IF Is(Char(s, j + 1), "r") THEN ParseChars(s, j + 2, text \o U("\r"))
            ELSE IF Is(Char(s, j + 1), "f") THEN ParseChars(s, j + 2, text \o U("\f"))
            ELSE IF Is(Char(s, j + 1), "b") THEN ParseChars(s, j + 2, text \o CodeChar(8))
            ELSE IF /\ Is(Char(s, j + 1), "u")
                    /\ j + 5 <= Len(s)
                    /\ \A d \in 2..5 : IsHexDigit(Char(s, j + d))
            THEN ParseChars(s, j + 6, text \o CodeChar(HexValue(SubSeq(s, j + 2, j + 5))))
            ELSE Fail(j)
        \* The first quote, backslash or control character, at position j.
        ParseCharsAt(j) ==
            IF j = 0 THEN Fail(i)
            ELSE IF Is(Char(s, j), "\"") THEN Done(Str(acc \o SubSeq(s, i, j - 1)), j + 1)
            ELSE IF Is(Char(s, j), "\\") THEN ParseEscape(j, acc \o SubSeq(s, i, j - 1))
            ELSE Fail(j)
    IN  ParseCharsAt(First(s, i, Len(s), Special, TRUE))

\* A JSON string starting at position i.
ParseString(s, i) ==
    IF i <= Len(s) /\ Is(Char(s, i), "\"") THEN ParseChars(s, i + 1, <<>>)
    ELSE Fail(i)

\* Number::toString for the number with the significant digits s, k of
\* them, and the decimal point after the n-th: d1 d2 ... dk times 10^(n - k).
Decimal(s, k, n) ==
    IF k <= n /\ n <= 21 THEN s \o SubSeq(U("000000000000000000000"), 1, n - k)
    ELSE IF 0 < n /\ n <= 21 THEN SubSeq(s, 1, n) \o U(".") \o From(s, n + 1)
    ELSE IF -6 < n /\ n <= 0 THEN U("0.") \o SubSeq(U("000000"), 1, -n) \o s
    ELSE (IF k = 1 THEN s ELSE Char(s, 1) \o U(".") \o From(s, 2))
             \o (IF n - 1 < 0 THEN U("e-") \o NatString(1 - n) ELSE U("e+") \o NatString(n - 1))

\* The digits of t from the first that is not 0, after lead zeros, to the
\* last that is not 0.
Significant(t, lead) ==
    IF lead = Len(t) THEN <<>>
    ELSE SubSeq(t, lead + 1,
                CHOOSE j \in 1..Len(t) :
                    /\ ~Is(Char(t, j), "0")
                    /\ \A m \in j + 1..Len(t) : Is(Char(t, m), "0"))

\* A positive number 0.d1 d2 ... dn times b^p in the digits of a base b, d1
\* not 0: a decimal in the base 10, or a number of any size, exactly, in the
\* base Base.
Dec(d, p) == [d |-> SubSeq(d, 1, Len(d)), p |-> p]

\* The i-th digit of x, a decimal or a number in the digits of another base,
\* 0 outside the digits it has.
Digit(x, i) == IF 1 <= i /\ i <= Len(x.d) THEN x.d[i] ELSE 0

\* x < y for two decimals.
Less(x, y) ==
    \/ x.p < y.p
    \/ /\ x.p = y.p
       /\ \E i \in 1..Len(y.d) :
              /\ Digit(x, i) < y.d[i]
              /\ \A j \in 1..i - 1 : Digit(x, j) = y.d[j]

\* The base of the numbers of any size: nine decimal digits make one of its
\* digits.
Base == 1000000000

\* x times 2^k: for k = 1 each digit doubled, with the carry of the digit
\* after it.
RECURSIVE Doubled(_, _)
Doubled(x, k) ==
    LET lead == IF x.d[1] >= Base \div 2 THEN 1 ELSE 0
        last == IF x.d[Len(x.d)] = Base \div 2 THEN 1 ELSE 0
    IN  IF k = 0 \/ x.d = << >> THEN x
        ELSE IF k = 1
        THEN Dec([j \in 1..Len(x.d) + lead - last |->
                      ((2 * Digit(x, j - lead)) % Base)
                          + (IF Digit(x, j - lead + 1) >= Base \div 2 THEN 1 ELSE 0)],
                 x.p + lead)
        ELSE Doubled(Doubled(x, k \div 2), k - (k \div 2))

\* x divided by 2^k: for k = 1 each digit halved, with the remainder of the
\* digit before it.
RECURSIVE Halved(_, _)
Halved(x, k) ==
    LET lead == IF x.d[1] < 2 THEN 1 ELSE 0
        last == x.d[Len(x.d)] % 2
    IN  IF k = 0 \/ x.d = << >> THEN x
        ELSE IF k = 1
        THEN Dec([j \in 1..Len(x.d) - lead + last |->
                      (Digit(x, j + lead) \div 2)
                          + (IF Digit(x, j + lead - 1) % 2 = 1 THEN Base \div 2 ELSE 0)],
                 x.p - lead)
        ELSE Halved(Halved(x, k \div 2), k - (k \div 2))

\* The number of the decimal x, whose last digit is not 0: nine digits of x
\* make one of the base Base.
Exact(x) ==
    LET e == (x.p + 8) \div 9
        Nine(t) == 100000000 * Digit(x, t + 1) + 10000000 * Digit(x, t + 2)
                     + 1000000 * Digit(x, t + 3) + 100000 * Digit(x, t + 4)
                     + 10000 * Digit(x, t + 5) + 1000 * Digit(x, t + 6)
                     + 100 * Digit(x, t + 7) + 10 * Digit(x, t + 8) + Digit(x, t + 9)
    IN  Dec([j \in 1..(9 * e - x.p + Len(x.d) + 8) \div 9 |-> Nine(9 * (j - 1) - (9 * e - x.p))],
            e)

\* The decimal of the number x in its first 18 digits; a 19th digit is 1
\* when digits that are not 0 follow them.
Leading(x) ==
    LET zeros == 9 - Len(NatString(x.d[1]))
        Power(r) == <<1, 10, 100, 1000, 10000, 100000, 1000000, 10000000, 100000000>>[r + 1]
        At(t) == (Digit(x, (t \div 9) + 1) \div Power(8 - (t % 9))) % 10
        More(t) == \/ Digit(x, (t \div 9) + 1) % Power(8 - (t % 9)) # 0
                   \/ Len(x.d) > (t \div 9) + 1
    IN  Dec([i \in 1..19 |-> IF i <= 18 THEN At(i + zeros - 1)
                             ELSE IF More(17 + zeros) THEN 1 ELSE 0],
            9 * x.p - zeros)

\* The integers of a double: its significand is below 2^53, at least 2^52
\* unless its exponent is the lowest, MinExponent; the exponent is at most
\* MaxExponent.
Two52 == Dec(<<4, 5, 0, 3, 5, 9, 9, 6, 2, 7, 3, 7, 0, 4, 9, 6>>, 16)

Two53 == Dec(<<9, 0, 0, 7, 1, 9, 9, 2, 5, 4, 7, 4, 0, 9, 9, 2>>, 16)

MinExponent == -1074

MaxExponent == 971

\* The integer after the one written with the digits a, which are not all 9.
After(a) ==
    LET k == CHOOSE i \in 1..Len(a) : a[i] # 9 /\ \A j \in i + 1..Len(a) : a[j] = 9
    IN  [i \in 1..Len(a) |-> IF i < k THEN a[i] ELSE IF i = k THEN a[i] + 1 ELSE 0]

\* The first k digits of the decimal x, and the k digits after them in the
\* last place.
Cut(x, k) == Dec([i \in 1..k |-> Digit(x, i)], x.p)

CutUp(x, k) ==
    IF \A i \in 1..k : Digit(x, i) = 9 THEN Dec(<<1>>, x.p + 1)
    ELSE Dec(After([i \in 1..k |-> Digit(x, i)]), x.p)

\* The decimal x is above the half of the k-th place after its first k
\* digits, or on it with an odd k-th digit.
NearerUp(x, k) ==
    \/ Digit(x, k + 1) > 5
    \/ /\ Digit(x, k + 1) = 5
       /\ \/ \E i \in k + 2..Len(x.d) : x.d[i] # 0
          \/ Digit(x, k) % 2 = 1

\* The shortest decimal that reads as the double v, which lies between the
\* doubles before and after it at lo and hi: of k digits when some decimal
\* of k digits lies between lo and hi (or on them, when the significand is
\* even), and among these the nearest to v.
RECURSIVE Shortest(_, _, _, _, _)
Shortest(lo, v, hi, even, k) ==
    IF /\ Less(lo, Cut(v, k)) \/ (even /\ ~Less(Cut(v, k), lo))
       /\ Less(CutUp(v, k), hi) \/ (even /\ ~Less(hi, CutUp(v, k)))
    THEN (IF NearerUp(v, k) THEN CutUp(v, k) ELSE Cut(v, k))
    ELSE IF Less(lo, Cut(v, k)) \/ (even /\ ~Less(Cut(v, k), lo))
    THEN Cut(v, k)
    ELSE IF Less(CutUp(v, k), hi) \/ (even /\ ~Less(hi, CutUp(v, k)))
    THEN CutUp(v, k)
    ELSE Shortest(lo, v, hi, even, k + 1)

\* Number::toString of the double m times 2^q, m written with 16 digits:
\* the shortest decimal between the halfway points to the doubles before
\* and after it, which are a quarter below and a half above 4m at the
\* exponent q - 2 when m is 2^52 and a smaller exponent exists.
DoubleText(m, q) ==
    LET \* The integer before the one written with the digits a (not 0).
        Before(a) ==
            LET k == CHOOSE i \in 1..Len(a) : a[i] # 0 /\ \A j \in i + 1..Len(a) : a[j] = 0
            IN  [i \in 1..Len(a) |-> IF i < k THEN a[i] ELSE IF i = k THEN a[i] - 1 ELSE 9]
        \* 2a + c for the integer written with the digits a, in one digit
        \* more, and c 0 or 1.
        TwicePlus(a, c) ==
            [i \in 1..Len(a) + 1 |->
                IF i = Len(a) + 1 THEN ((2 * a[Len(a)]) % 10) + c
                ELSE (IF i = 1 THEN 0 ELSE ((2 * a[i - 1]) % 10)) + (IF a[i] >= 5 THEN 1 ELSE 0)]
        \* The number of the integer written with the digits a, which has a
        \* digit that is not 0.
        Whole(a) ==
            LET first == CHOOSE i \in 1..Len(a) : a[i] # 0 /\ \A j \in 1..i - 1 : a[j] = 0
                last == CHOOSE i \in 1..Len(a) : a[i] # 0 /\ \A j \in i + 1..Len(a) : a[j] = 0
            IN  Exact(Dec([i \in 1..last - first + 1 |-> a[i + first - 1]],
                          Len(a) - first + 1))
        \* The decimal of that integer times 2^e.
        Scaled(a, e) ==
            Leading(IF e >= 0 THEN Doubled(Whole(a), e) ELSE Halved(Whole(a), -e))
    IN  IF m = Two52.d /\ q > MinExponent
        THEN Shortest(Scaled(Before(TwicePlus(TwicePlus(m, 0), 0)), q - 2),
                      Scaled(m, q),
                      Scaled(TwicePlus(m, 1), q - 1),
                      TRUE, 1)
        ELSE Shortest(Scaled(TwicePlus(Before(m), 1), q - 1),
                      Scaled(m, q),
                      Scaled(TwicePlus(m, 1), q - 1),
                      m[16] % 2 = 0, 1)

\* The decimal w, which is below 2^53, rounded to an integer, to an even
\* one when it is halfway between two, written with 16 digits.
Rounded(w) ==
    LET floor == [i \in 1..16 |-> Digit(w, i - 16 + w.p)]
    IN  IF w.p >= 0 /\ NearerUp(w, w.p) THEN After(floor) ELSE floor

\* The text of the double m times 2^q, negated when neg: 0 when m is 0,
\* Infinity beyond the largest double; m rounded up to 2^53 is 2^52 at the
\* next exponent.
RECURSIVE RoundedText(_, _, _)
RoundedText(neg, m, q) ==
    LET \* Number::toString of the decimal x.
        DecimalText(x) ==
            Decimal(SubSeq([i \in 1..Len(x.d) |-> 48 + x.d[i]], 1, Len(x.d)),
                    Len(x.d), x.p)
    IN  IF m = [i \in 1..16 |-> 0] THEN U("0")
        ELSE IF m = Two53.d THEN RoundedText(neg, Two52.d, q + 1)
        ELSE IF q > MaxExponent THEN (IF neg THEN U("-Infinity") ELSE U("Infinity"))
        ELSE (IF neg THEN U("-") ELSE <<>>) \o DecimalText(DoubleText(m, q))

\* The text of the double nearest to the number w times 2^q, negated when
\* neg: w is brought between 2^52 and 2^53, or below 2^52 at the lowest
\* exponent, and rounded there.  Three halvings take away less than a decimal
\* digit, three doublings add less than one.
RECURSIVE Nearest(_, _, _)
Nearest(neg, w, q) ==
    LET p == Leading(w).p
        up == IF 3 * (15 - p) < q - MinExponent THEN 3 * (15 - p) ELSE q - MinExponent
    IN  IF p >= 18 THEN Nearest(neg, Halved(w, 3 * (p - 17)), q + 3 * (p - 17))
        ELSE IF ~Less(Leading(w), Two53) THEN Nearest(neg, Halved(w, 1), q + 1)
        ELSE IF q = MinExponent \/ ~Less(Leading(w), Two52)
        THEN RoundedText(neg, Rounded(Leading(w)), q)
        ELSE IF p <= 14 THEN Nearest(neg, Doubled(w, up), q - up)
        ELSE Nearest(neg, Doubled(w, 1), q - 1)

\* String(n) for the number a JSON number spells: an integer part, a
\* fraction and a power of ten.  Its digits s from the first to the last
\* that is not 0 are 0.s times 10^n; the double nearest to that is shown by
\* its shortest decimal, which is s itself when s has up to 15 digits and
\* the number is well inside the range of the doubles.
NumberText(neg, int, frac, exp) ==
    LET lead == RunLen(int \o frac, {U("0")})
        s == Significant(int \o frac, lead)
        n == Len(int) - lead + exp
    IN  IF s = <<>> \/ n < -330 THEN U("0")
        ELSE IF n > 310 THEN (IF neg THEN U("-Infinity") ELSE U("Infinity"))
        ELSE IF Len(s) <= 15 /\ -300 <= n /\ n <= 300
        THEN (IF neg THEN U("-") ELSE <<>>) \o Decimal(s, Len(s), n)
        ELSE Nearest(neg, Exact(Dec([i \in 1..Len(s) |-> DigitValue(Char(s, i))], n)), 0)

\* The end of a number: with an exponent part (has), its nExp digits from
\* position e spell the power of ten, cut at what no number reaches; without
\* one the number ends at e.
NumberExponent(s, neg, int, frac, has, expNeg, e, nExp) ==
    LET digits == From(SubSeq(s, e, e + nExp - 1),
                       RunLen(SubSeq(s, e, e + nExp - 1), {U("0")}) + 1)
    IN  IF has /\ nExp = 0 THEN Fail(e)
        ELSE Done(Num(NumberText(neg, int, frac,
                                 IF ~has THEN 0
                                 ELSE (IF expNeg THEN -1 ELSE 1)
                                          * (IF Len(digits) > 8 THEN 99999999
                                             ELSE NatValue(digits)))),
                  e + nExp)

\* What follows the integer part and the fraction, at position c: an e or E,
\* a sign or none, and the digits of the exponent.
NumberTail(s, neg, int, frac, c) ==
    LET has == c <= Len(s) /\ (Is(Char(s, c), "e") \/ Is(Char(s, c), "E"))
        signed == has /\ c + 1 <= Len(s)
                     /\ (Is(Char(s, c + 1), "+") \/ Is(Char(s, c + 1), "-"))
        e == IF has THEN c + 1 + (IF signed THEN 1 ELSE 0) ELSE c
    IN  NumberExponent(s, neg, int, frac, has, signed /\ Is(Char(s, c + 1), "-"), e,
                       IF has THEN RunLen(From(s, e), Digits) ELSE 0)

\* What follows the integer part, which ends before position b: a point
\* and the nFrac digits of the fraction, or no fraction.
NumberFraction(s, neg, int, b, nFrac) ==
    LET point == b <= Len(s) /\ Is(Char(s, b), ".")
    IN  IF point /\ nFrac = 0 THEN Fail(b)
        ELSE NumberTail(s, neg, int,
                        IF point THEN SubSeq(s, b + 1, b + nFrac) ELSE <<>>,
                        IF point THEN b + 1 + nFrac ELSE b)

\* The integer part, of nInt digits from position a: a lone 0, or digits
\* that do not start with 0.
NumberInteger(s, neg, a, nInt) ==
    IF nInt = 0 THEN Fail(a)
    ELSE NumberFraction(s, neg, SubSeq(s, a, a + nInt - 1), a + nInt,
                        RunLen(From(s, a + nInt + 1), Digits))

\* A JSON number whose digits start at position a, after its sign.
ParseNumber(s, neg, a) ==
    NumberInteger(s, neg, a,
                  IF a <= Len(s) /\ Is(Char(s, a), "0") THEN 1
                  ELSE RunLen(From(s, a), Digits))

StartsAt(s, i, word) ==
    i + Len(word) - 1 <= Len(s) /\ Is(SubSeq(s, i, i + Len(word) - 1), word)

\* A JSON value starting at position i: [ok, v, next].
RECURSIVE ParseValue(_, _)
RECURSIVE ParseMembers(_, _, _)
RECURSIVE ParseElements(_, _, _)
\* After a member with the value val: a comma and more members, or the
\* closing brace.  A key written twice holds its last value, at its first
\* place.
AfterMember(s, key, val, acc) ==
    IF ~val.ok THEN val
    ELSE IF SkipWs(s, val.next) > Len(s) THEN Fail(val.next)
    ELSE IF Is(Char(s, SkipWs(s, val.next)), ",")
    THEN ParseMembers(s, SkipWs(s, SkipWs(s, val.next) + 1), Define(acc, key, val.v))
    ELSE IF Is(Char(s, SkipWs(s, val.next)), "}")
    THEN Done(Obj(Define(acc, key, val.v)), SkipWs(s, val.next) + 1)
    ELSE Fail(SkipWs(s, val.next))

\* After the key of a member: a colon and the value.
AfterKey(s, key, acc) ==
    IF ~key.ok THEN Fail(key.next)
    ELSE IF SkipWs(s, key.next) <= Len(s) /\ Is(Char(s, SkipWs(s, key.next)), ":")
    THEN AfterMember(s, key.v.s, ParseValue(s, SkipWs(s, SkipWs(s, key.next) + 1)), acc)
    ELSE Fail(SkipWs(s, key.next))

\* The members of an object from position i, after acc: the closing brace
\* of an object with no members, or "key": value members up to the closing
\* brace.
ParseMembers(s, i, acc) ==
    IF acc = <<>> /\ i <= Len(s) /\ Is(Char(s, i), "}") THEN Done(Obj(<<>>), i + 1)
    ELSE AfterKey(s, ParseString(s, i), acc)

\* After an element with the value val: a comma and more elements, or the
\* closing bracket.
AfterElement(s, val, acc) ==
    IF ~val.ok THEN val
    ELSE IF SkipWs(s, val.next) > Len(s) THEN Fail(val.next)
    ELSE IF Is(Char(s, SkipWs(s, val.next)), ",")
    THEN ParseElements(s, SkipWs(s, SkipWs(s, val.next) + 1), Append(acc, val.v))
    ELSE IF Is(Char(s, SkipWs(s, val.next)), "]")
    THEN Done(Arr(Append(acc, val.v)), SkipWs(s, val.next) + 1)
    ELSE Fail(SkipWs(s, val.next))

\* The elements of an array from position i, after acc: the closing bracket
\* of an array with no elements, or the elements up to the closing bracket.
ParseElements(s, i, acc) ==
    IF acc = <<>> /\ i <= Len(s) /\ Is(Char(s, i), "]") THEN Done(Arr(<<>>), i + 1)
    ELSE AfterElement(s, ParseValue(s, i), acc)

ParseValue(s, i) ==
    IF i > Len(s) THEN Fail(i)
    ELSE IF Is(Char(s, i), "\"") THEN ParseString(s, i)
    ELSE IF Is(Char(s, i), "{") THEN ParseMembers(s, SkipWs(s, i + 1), <<>>)
    ELSE IF Is(Char(s, i), "[") THEN ParseElements(s, SkipWs(s, i + 1), <<>>)
    ELSE IF StartsAt(s, i, "true") THEN Done(Bool(TRUE), i + 4)
    ELSE IF StartsAt(s, i, "false") THEN Done(Bool(FALSE), i + 5)
    ELSE IF StartsAt(s, i, "null") THEN Done(Null, i + 4)
    ELSE IF Char(s, i) \in Digits \/ Is(Char(s, i), "-")
    THEN ParseNumber(s, Is(Char(s, i), "-"), IF Is(Char(s, i), "-") THEN i + 1 ELSE i)
    ELSE Fail(i)

\* The document is one value with nothing but white space around it.
Document(text, r) ==
    IF r.ok /\ SkipWs(text, r.next) > Len(text) THEN r.v ELSE SyntaxError

\* JSON.parse(text): the value, or SyntaxError.
parse(text) == Document(text, ParseValue(text, SkipWs(text, 1)))

(***************************************************************************)
(* Session Store.  The file is [exists, data]; data is its text.           *)
(***************************************************************************)
NoFile == [exists |-> FALSE, data |-> <<>>]

\* A store loader that never reads the file.
loadConfigStoreEmpty(file) == Obj(<<>>)

\* loadConfigStore(): the parsed file, {} when there is none, SyntaxError
\* when JSON.parse throws.
loadConfigStore(file) == IF file.exists THEN parse(file.data) ELSE Obj(<<>>)

\* saveConfigStore(config): the new content of the file.
saveConfigStore(cfg) == [exists |-> TRUE, data |-> stringifyPretty(Obj(cfg))]

(***************************************************************************)
(* CLI Registrar.                                                          *)
(***************************************************************************)
\* s.match(/<(.*?)>/g) || [] and s.match(/\[(.*?)\]/g) || []: the
\* non-overlapping shortest spans, on one line, from an opening character to
\* the next closing character, left to right.  The "." of the expression
\* matches no line terminator (line feed, carriage return, U+2028, U+2029).
RECURSIVE Matches(_, _, _)
Matches(s, open, close) ==
    LET \* What follows an opening character at position i: a match up to
        \* the first closing character at j when no line break comes first.
        MatchFrom(i, j) ==
            IF j = 0 THEN <<>>
            ELSE IF Char(s, j) = close
            THEN <<SubSeq(s, i, j)>> \o Matches(From(s, j + 1), open, close)
            ELSE Matches(From(s, j + 1), open, close)
    IN  IF IndexOf(s, open) = 0 THEN <<>>
        ELSE MatchFrom(IndexOf(s, open),
                       First(s, IndexOf(s, open) + 1, Len(s),
                             {close} \cup { <<c>> : c \in {10, 13, 8232, 8233} },
                             TRUE))
\* arg.replace(/[<>]/g, '') and arg.replace(/[\[\]]/g, '')
Clean(arg, open, close) == StripAll(StripAll(arg, open), close)

cleanMandatoryArgs(cmd) ==
    LET m == Matches(cmd, U("<"), U(">")) IN [i \in 1..Len(m) |-> Clean(m[i], U("<"), U(">"))]

cleanOptionalArgs(cmd) ==
    LET m == Matches(cmd, U("["), U("]")) IN [i \in 1..Len(m) |-> Clean(m[i], U("["), U("]"))]

\* commandParts[0]
parentCommandName(cmd) == Split(cmd, U(" "))[1]

\* commandParts.slice(1).join(' ')
subcommandName(cmd) ==
    LET i == IndexOf(cmd, U(" ")) IN IF i = 0 THEN <<>> ELSE From(cmd, i + 1)

\* The registrations made so far; thrown once an iteration has thrown.
NoRegistry == [parents |-> <<>>, subs |-> <<>>, thrown |-> FALSE]

\* registeredParents holds a parent command under the name.
HasParent(reg, name) == \E i \in 1..Len(reg.parents) : reg.parents[i].name = name

\* registeredParents[parentCommandName] is truthy: a parent command is
\* registered under the name, or the name is one every object inherits.
IsRegistered(reg, name) == HasParent(reg, name) \/ Truthy(Lookup(<<>>, name))

\* program.command(parentCommandName) with its arguments, options and action.
ParentEntry(cmd) ==
    [name |-> parentCommandName(cmd),
     mandatory |-> cleanMandatoryArgs(cmd),
     optional |-> cleanOptionalArgs(cmd),
     cmd |-> cmd]

\* parentCommand.command(subcommandName) with its action; commander takes
\* the first word as the subcommand's name and the rest as its arguments.
SubEntry(cmd) ==
    LET words == Split(subcommandName(cmd), U(" ")) IN
    [parent |-> parentCommandName(cmd),
     name |-> words[1],
     declared |-> Tail(words),
     cmd |-> cmd]

\* An iteration that registers a parent command for every command name.
RegisterCommandEach(reg, cmd) ==
    IF subcommandName(cmd) # <<>>
    THEN [reg EXCEPT !.parents = Append(@, ParentEntry(cmd)),
                     !.subs = Append(@, SubEntry(cmd))]
    ELSE [reg EXCEPT !.parents = Append(@, ParentEntry(cmd))]

\* One iteration of Object.keys(config.commands).forEach in setupCLI.  In
\* the subcommand part registeredParents[parentCommandName] is the parent
\* command, or an inherited value that has no command method, and then the
\* call throws a TypeError.
RegisterCommand(reg, cmd) ==
    LET RegisterSub(r) ==
            IF subcommandName(cmd) = <<>> THEN r
            ELSE IF HasParent(r, parentCommandName(cmd))
            THEN [r EXCEPT !.subs = Append(@, SubEntry(cmd))]
            ELSE [r EXCEPT !.thrown = TRUE]
    IN  IF ~IsRegistered(reg, parentCommandName(cmd))
        THEN RegisterSub([reg EXCEPT !.parents = Append(@, ParentEntry(cmd))])
        ELSE RegisterSub(reg)

\* setupCLI(config): the registrations made for the command names in order,
\* up to the iteration that throws.
RECURSIVE RegisterAll(_, _)
RegisterAll(reg, names) ==
    IF names = <<>> \/ reg.thrown THEN reg
    ELSE RegisterAll(RegisterCommand(reg, Head(names)), Tail(names))

setupCLI(names) == RegisterAll(NoRegistry, names)

(***************************************************************************)
(* The configuration document of the model (config.yaml after yaml.parse). *)
(***************************************************************************)
\* A command definition; a key the document leaves out is Undefined.
Definition(endpoint, body, response, set, execute) ==
    [endpoint |-> endpoint, body |-> body, response |-> response,
     set |-> set, execute |-> execute]

Commands ==
    << Prop(U("login <user> <pass>"),
            Definition(Str(U("POST $base/login")),
                       Obj(<<Prop(U("user"), Str(U("$user"))), Prop(U("pass"), Str(U("$pass")))>>),
                       Undefined,
                       Obj(<<Prop(U("token"), Str(U("$data.token")))>>),
                       Undefined)),
       Prop(U("get <id>"),
            Definition(Str(U("GET $base/items/$id")),
                       Obj(<<Prop(U("q"), Str(U("$id")))>>),
                       Str(U("$id: $data.v")),
                       Obj(<<Prop(U("v"), Str(U("$data.v"))), Prop(U("last"), Str(U("$id=$v")))>>),
                       Undefined)),
       Prop(U("get list"),
            Definition(Str(U("GET $base/items")),
                       Undefined,
                       Str(U("first: $data.a.b")),
                       Undefined,
                       Undefined)),
       Prop(U("hello <name>"),
            Definition(Undefined, Undefined, Str(U("Hello $name")), Undefined, Undefined)),
       Prop(U("show [id]"),
            Definition(Undefined, Undefined, Str(U("id=$id")), Undefined, Undefined)),
       Prop(U("run <id>"),
            Definition(Undefined, Undefined, Undefined, Undefined, Str(U("echo $id")))),
       Prop(U("about"),
            Definition(Undefined, Undefined, Str(U("by $constructor")), Undefined, Undefined)),
       Prop(U("sync"),
            Definition(Str(U("POST $base/sync")), Undefined, Undefined,
                       Obj(<<Prop(U("seen"), Str(U("$data.v"))), Prop(U("deep"), Str(U("$data.a.b")))>>),
                       Str(U("echo $id"))))
    >>

Headers ==
    << Prop(U("Authorization"), Str(U("Bearer $token"))), Prop(U("X-Id"), Str(U("$id"))) >>

\* The static variables the document may hold.
StaticChoices ==
    { <<>>,
      <<Prop(U("base"), Str(U("h")))>>,
      <<Prop(U("base"), Str(U("h"))), Prop(U("id"), Str(U("s")))>> }

Configs ==
    { [variables |-> v, headers |-> Headers, commands |-> Commands] : v \in StaticChoices }

\* What the session store file may hold before the first invocation.
InitialStores ==
    { NoFile, saveConfigStore(<<Prop(U("id"), Str(U("p")))>>) }

\* Values the user may type for a positional argument or an option.
ArgValues == { <<>>, U("7") }

\* Response bodies the server may answer with; A49 is a text of 49
\* characters, and the character after it, U+00E9, is one code unit.
Responses ==
    LET A49 == U("aaaaaaaaaabbbbbbbbbbccccccccccddddddddddeeeeeeeee")
        A50 == A49 \o <<233>>
    IN
    { Obj(<<Prop(U("token"), Str(U("abc123")))>>),
      Obj(<<Prop(U("v"), Str(U("x")))>>),
      Obj(<<Prop(U("v"), Str(A50))>>),
      Obj(<<Prop(U("v"), Str(A50 \o U("f")))>>),
      Obj(<<Prop(U("v"), Str(A50 \o U("ffffffffff")))>>),
      Obj(<<Prop(U("v"), Str(U("$id")))>>),
      Obj(<<Prop(U("v"), Str(U("$base")))>>),
      Obj(<<Prop(U("a"), Obj(<<Prop(U("b"), Str(U("x")))>>))>>),
      Obj(<<>>) }

\* How a request may fail: a response outside 2xx, or no response at all.
Failures == { U("status"), U("network") }

\* How the shell command may end: its exit status and what it wrote.
ExecResults ==
    { [err |-> FALSE, stdout |-> U(" ok\n"), stderr |-> <<>>],
      [err |-> TRUE, stdout |-> <<>>, stderr |-> U("not found")] }

\* The number of invocations (process runs) the model follows.
MaxInvocations == 2

(***************************************************************************)
(* Request Executor: makeRequest(command, variables, headers, args).       *)
(***************************************************************************)
Log(kind, text) == [stream |-> "stdout", kind |-> kind, text |-> text]
Err(kind, text) == [stream |-> "stderr", kind |-> kind, text |-> text]

NoInvocation ==
    [name |-> <<>>, command |-> Definition(Undefined, Undefined, Undefined, Undefined, Undefined),
     args |-> <<>>, loadedStore |-> <<>>, updatedVariables |-> <<>>,
     data |-> Undefined, called |-> <<>>]

\* replaceVariables(template, variables) for a template of the document:
\* a template that is no string has no replace method, a TypeError.
replaceVariablesIn(template, variables) ==
    IF template.t = "string" THEN replaceVariables(template.s, variables)
    ELSE TypeError

\* template.replace(/\$data\.[a-zA-Z0-9_.-]+/g, ...) for a template of the
\* document.
replaceDataIn(template, data, display) ==
    IF template.t = "string" THEN replaceData(template.s, data, display)
    ELSE TypeError

\* Variables that leave the session store out.
MergeStoreStatic(variables, configStore) == variables

\* const updatedVariables = { ...variables, ...configStore }
MergeStore(variables, configStore) == Spread(variables, configStore)

\* { ...updatedVariables, ...args }: the scope of endpoint, body, response
\* and set templates.
Scope(updatedVariables, args) == Spread(updatedVariables, args)

\* The variables the header templates are resolved with.
HeaderScope(updatedVariables, args) == updatedVariables

\* Object.keys(headers).forEach(key => updatedHeaders[key] = ...): the
\* headers resolved so far, after acc; TypeError when a template throws.
RECURSIVE ResolveHeaders(_, _, _)
ResolveHeaders(acc, headers, variables) ==
    LET HeaderThen(key, value) ==
            IF IsThrow(value) THEN value
            ELSE ResolveHeaders(Assign(acc, key, value), Tail(headers), variables)
    IN  IF headers = <<>> THEN Obj(acc)
        ELSE HeaderThen(Head(headers).k, replaceVariablesIn(Head(headers).v, variables))

\* updatedHeaders: every header template resolved, in the order of
\* Object.keys(headers).
updatedHeaders(headers, variables) == ResolveHeaders(<<>>, Ordered(headers), variables)

\* urlWithVars.split(' ')[0] and urlWithVars.split(' ')[1]
Method(urlWithVars) ==
    IF IsThrow(urlWithVars) THEN urlWithVars ELSE Str(Split(urlWithVars.s, U(" "))[1])

Url(urlWithVars) ==
    IF IsThrow(urlWithVars) THEN urlWithVars
    ELSE IF Len(Split(urlWithVars.s, U(" "))) >= 2 THEN Str(Split(urlWithVars.s, U(" "))[2])
    ELSE Undefined

\* JSON.parse of the stringified body once its variables are replaced.
ParseResolved(text) == IF IsThrow(text) THEN text ELSE parse(text.s)

\* command.body ? JSON.parse(replaceVariables(JSON.stringify(command.body), scope)) : {}
ResolveBody(body, scope) ==
    IF Truthy(body) THEN ParseResolved(replaceVariables(stringify(body), scope))
    ELSE Obj(<<>>)

\* The options object handed to axios; a field holds the throw of the
\* statement that computes it.
RequestOf(urlWithVars, command, updatedVariables, headers, args) ==
    [method |-> Method(urlWithVars),
     url |-> Url(urlWithVars),
     headers |-> updatedHeaders(headers, HeaderScope(updatedVariables, args)),
     data |-> ResolveBody(command.body, Scope(updatedVariables, args))]

Request(command, updatedVariables, headers, args) ==
    RequestOf(replaceVariablesIn(command.endpoint, Scope(updatedVariables, args)),
              command, updatedVariables, headers, args)

\* A statement before the try block threw.
RequestThrows(req) ==
    IsThrow(req.method) \/ IsThrow(req.data) \/ IsThrow(req.headers)

\* A response template shown as it is written.
PlainResponseUnresolved(command, updatedVariables, args) == command.response

\* The text makeRequest shows for a response template with no endpoint:
\* Str(text), or TypeError when replaceVariables throws.
PlainResponse(command, updatedVariables, args) ==
    replaceVariablesIn(command.response, Scope(updatedVariables, args))

\* A response template resolved against the scope first and the response
\* body second.
ShownResponseScopeFirst(command, updatedVariables, args, data) ==
    replaceDataIn(replaceVariablesIn(command.response, Scope(updatedVariables, args)),
                  data, TRUE)

\* The text makeRequest shows for a response template after a request:
\* Str(text), or TypeError when the extraction or a conversion throws.
ShownResponse(command, updatedVariables, args, data) ==
    replaceVariablesIn(replaceDataIn(command.response, data, TRUE),
                       Scope(updatedVariables, args))

\* Object.keys(command.set).forEach(...): updatedVariables after the entries
\* processed, and whether a callback threw on the way.
RECURSIVE ApplySet(_, _, _, _)
ApplySet(entries, updatedVariables, args, data) ==
    LET SetThenRest(value) ==
            IF IsThrow(value) THEN [vars |-> updatedVariables, thrown |-> TRUE]
            ELSE ApplySet(Tail(entries),
                          Assign(updatedVariables, Head(entries).k, value), args, data)
    IN  IF entries = <<>> THEN [vars |-> updatedVariables, thrown |-> FALSE]
        ELSE SetThenRest(replaceVariablesIn(replaceDataIn(Head(entries).v, data, FALSE),
                                            Scope(updatedVariables, args)))

\* A save of the variables overlaid by the invocation arguments.
SavedVariablesWithArgs(updatedVariables, args) == Spread(updatedVariables, args)

\* What saveConfigStore is given once the set entries are processed.
SavedVariables(updatedVariables, args) == updatedVariables

\* if (command.execute) exec(command.execute, callback): the shell commands
\* started, and where the process goes next.  exec throws, and nothing
\* catches it, when it is given a command that is no string (a TypeError),
\* a string that holds a null character (a TypeError), or a string the
\* system refuses as one argument of the shell (spawn E2BIG: on Linux with
\* pages of 4096 bytes, 131072 or more bytes of UTF-8 with the terminator).
StartExec(command, updatedVariables, args) ==
    LET s == command.execute.s
        High(i) == s[i] >= 55296 /\ s[i] <= 56319
        Low(i) == s[i] >= 56320 /\ s[i] <= 57343
        Paired(i) == \/ High(i) /\ i < Len(s) /\ Low(i + 1)
                     \/ Low(i) /\ i > 1 /\ High(i - 1)
        Bytes == Len(s)
                 + Cardinality({ i \in 1..Len(s) : s[i] >= 128 })
                 + Cardinality({ i \in 1..Len(s) : s[i] >= 2048 /\ ~Paired(i) })
    IN  IF ~Truthy(command.execute) THEN [pc |-> "done", spawned |-> <<>>]
        ELSE IF command.execute.t # "string" THEN [pc |-> "crashed", spawned |-> <<>>]
        ELSE IF \E i \in 1..Len(s) : s[i] = 0 THEN [pc |-> "crashed", spawned |-> <<>>]
        ELSE IF Bytes + 1 > 131072 THEN [pc |-> "crashed", spawned |-> <<>>]
        ELSE [pc |-> "exec", spawned |-> <<s>>]

\* stdout.trim(): the text from its first to its last code unit that is
\* neither white space nor a line terminator.
Trim(s) ==
    LET TrimWhitespace ==
            { <<c>> : c \in (9..13) \cup {32, 160, 5760} \cup (8192..8202)
                              \cup {8232, 8233, 8239, 8287, 12288, 65279} }
        Kept(first) ==
            IF first = 0 THEN <<>>
            ELSE SubSeq(s, first,
                        CHOOSE j \in first..Len(s) :
                            /\ Char(s, j) \notin TrimWhitespace
                            /\ \A m \in j + 1..Len(s) : Char(s, m) \in TrimWhitespace)
    IN  Kept(First(s, 1, Len(s), TrimWhitespace, FALSE))

(***************************************************************************)
(* The executor as a state machine.  A process parses its arguments, runs  *)
(* one action handler and exits; the next invocation is a new process that *)
(* shares only the session store file with the previous one.               *)
(***************************************************************************)
Pending == [t |-> "pending"]

PathIdle == root = Undefined /\ path = <<>> /\ extracted = Pending
RaceIdle == procs = <<>>
StoreIdle == loaded = Pending /\ lastSaved = Pending

Init ==
    /\ config \in Configs
    /\ fileStore \in InitialStores
    /\ pc = "idle"
    /\ cur = NoInvocation
    /\ request = <<>>
    /\ out = <<>>
    /\ saves = <<>>
    /\ spawned = <<>>
    /\ nInv = 0
    /\ cmdNames = Keys(config.commands)
    /\ regIdx = Len(cmdNames)
    /\ registry = setupCLI(cmdNames)
    /\ PathIdle
    /\ StoreIdle
    /\ RaceIdle

\* makeRequest once the session store is merged over the static variables
\* (thrown when loadConfigStore threw), given the request, the plain
\* response and the start of the execute command they come to.
Started(invocation, thrown, req, plain, ex) ==
    /\ pc = "idle"
    /\ nInv < MaxInvocations
    /\ nInv' = nInv + 1
    /\ saves' = <<>>
    /\ IF thrown
       THEN /\ pc' = "crashed"
            /\ cur' = [NoInvocation EXCEPT !.name = invocation.name,
                                           !.command = invocation.command,
                                           !.args = invocation.args]
            /\ request' = <<>> /\ out' = <<>> /\ spawned' = <<>>
       ELSE IF Truthy(invocation.command.endpoint)
       THEN /\ cur' = invocation
            /\ out' = <<>> /\ spawned' = <<>>
            /\ IF RequestThrows(req)
               THEN pc' = "crashed" /\ request' = <<>>
               ELSE pc' = "awaiting" /\ request' = <<req>>
       ELSE IF Truthy(invocation.command.response) /\ IsThrow(plain)
       THEN /\ cur' = invocation
            /\ pc' = "crashed"
            /\ request' = <<>> /\ out' = <<>> /\ spawned' = <<>>
       ELSE /\ cur' = invocation
            /\ request' = <<>>
            /\ out' = IF Truthy(invocation.command.response)
                      THEN <<Log("response", plain.s)>>
                      ELSE <<>>
            /\ pc' = ex.pc /\ spawned' = ex.spawned
    /\ UNCHANGED <<config, fileStore, pathVars, cliVars, storeVars, raceVars>>

\* makeRequest up to its first await (axios) or, with no endpoint, to its end.
\* A throw of loadConfigStore, of replaceVariables or of the body's
\* JSON.parse is outside the try block: the promise of makeRequest rejects
\* and nothing handles it.
makeRequest(name, command, args) ==
    LET configStore == loadConfigStore(fileStore)
        updatedVariables == MergeStore(config.variables, Props(configStore))
    IN  Started([name |-> name, command |-> command, args |-> args,
                 loadedStore |-> Props(configStore),
                 updatedVariables |-> updatedVariables,
                 data |-> Undefined, called |-> <<>>],
                IsThrow(configStore),
                Request(command, updatedVariables, config.headers, args),
                PlainResponse(command, updatedVariables, args),
                StartExec(command, updatedVariables, args))

\* What the user may give for one option: nothing, the option with a value,
\* or the option alone, which commander stores as true.
OptionInputs ==
    {[given |-> FALSE, v |-> Undefined]}
    \cup {[given |-> TRUE, v |-> Str(a)] : a \in ArgValues}
    \cup {[given |-> TRUE, v |-> Bool(TRUE)]}

\* parsedArgs: the positional values that are truthy, by argument name.
RECURSIVE parsedArgs(_, _)
parsedArgs(names, values) ==
    IF names = <<>> THEN <<>>
    ELSE LET n == Len(names)
             before == parsedArgs(SubSeq(names, 1, n - 1), SubSeq(values, 1, n - 1))
         IN  IF values[n] # <<>> THEN Assign(before, names[n], Str(values[n])) ELSE before

\* parentCommand.opts(): the options given, by option name.
RECURSIVE opts(_, _)
opts(names, inputs) ==
    IF names = <<>> THEN <<>>
    ELSE LET n == Len(names)
             before == opts(SubSeq(names, 1, n - 1), SubSeq(inputs, 1, n - 1))
         IN  IF inputs[n].given THEN Assign(before, names[n], inputs[n].v) ELSE before

\* const allArgs = { ...parsedArgs, ...options }: what the action handler of
\* a parent command passes to makeRequest.
allArgs(p, positional, options) ==
    Spread(parsedArgs(p.mandatory, positional), opts(p.optional, options))

\* What the action handler of a subcommand passes to makeRequest: {}.
subArgs(sub) == <<>>

\* The action handler of parent command i.
ParentAction(i) ==
    LET p == registry.parents[i] IN
    ~registry.thrown /\
    \E positional \in [1..Len(p.mandatory) -> ArgValues] :
    \E options \in [1..Len(p.optional) -> OptionInputs] :
        makeRequest(p.cmd, Lookup(config.commands, p.cmd),
                    allArgs(p, positional, options))

\* The action handler of subcommand j.
SubAction(j) ==
    LET sub == registry.subs[j] IN
    ~registry.thrown /\
    makeRequest(sub.cmd, Lookup(config.commands, sub.cmd), subArgs(sub))

\* The response template of the try block: the text shown, Str("") when the
\* command has no response template, TypeError when the extraction throws.
TryResponse(command, updatedVariables, args, data) ==
    IF Truthy(command.response)
    THEN ShownResponse(command, updatedVariables, args, data)
    ELSE Str(<<>>)

\* A set block that saves whatever the entries came to.
SavedAnyway(applied) ==
    [vars |-> applied.vars, thrown |-> applied.thrown, saved |-> TRUE]

\* The set block of the try block, reached when the response template did
\* not throw: the variables afterwards, whether an extraction threw, and
\* whether saveConfigStore was reached.
Saved(applied) ==
    [vars |-> applied.vars, thrown |-> applied.thrown, saved |-> ~applied.thrown]

TrySet(command, updatedVariables, args, data, shown) ==
    IF ~IsThrow(shown) /\ Truthy(command.set)
    THEN Saved(ApplySet(Ordered(Props(command.set)), updatedVariables, args, data))
    ELSE [vars |-> updatedVariables, thrown |-> FALSE, saved |-> FALSE]

\* The rest of the try block, its catch, and the start of the execute
\* command, given what the response template and the set block came to, the
\* variables saveConfigStore would write and the execute command's start.
Settled(data, shown, applied, saved, ex) ==
    /\ pc = "awaiting"
    /\ out' = out
              \o (IF Truthy(cur.command.response) /\ ~IsThrow(shown)
                  THEN <<Log("response", shown.s)>> ELSE <<>>)
              \o (IF applied.saved
                  THEN <<Log("saved", U("Updated configuration saved:"))>>
                  ELSE <<>>)
              \o (IF IsThrow(shown) \/ applied.thrown
                  THEN <<Err("error", U("Error: TypeError"))>> ELSE <<>>)
    /\ fileStore' = IF applied.saved THEN saveConfigStore(saved) ELSE fileStore
    /\ saves' = IF applied.saved THEN Append(saves, saved) ELSE saves
    /\ cur' = [cur EXCEPT !.updatedVariables = applied.vars, !.data = data]
    /\ pc' = ex.pc
    /\ spawned' = ex.spawned
    /\ UNCHANGED <<config, request, nInv, pathVars, cliVars, storeVars, raceVars>>

Settle(data, shown, applied) ==
    Settled(data, shown, applied, SavedVariables(applied.vars, cur.args),
            StartExec(cur.command, applied.vars, cur.args))

\* The try block once the response template is evaluated: the set clause,
\* and what follows it.
Templated(data, shown) ==
    Settle(data, shown,
           TrySet(cur.command, cur.updatedVariables, cur.args, data, shown))

\* axios resolves with a 2xx response whose body is data: the response
\* template, then the set clause, and what follows them.
Resolve(data) ==
    Templated(data, TryResponse(cur.command, cur.updatedVariables, cur.args, data))

\* axios rejects (no response, or a status outside 2xx): the catch block, and
\* the start of the execute command.
Reject(failure) ==
    LET ex == StartExec(cur.command, cur.updatedVariables, cur.args) IN
    /\ pc = "awaiting"
    /\ out' = Append(out, Err("error", U("Error: ") \o failure))
    /\ pc' = ex.pc
    /\ spawned' = ex.spawned
    /\ UNCHANGED <<config, fileStore, cur, request, saves, nInv,
                   pathVars, cliVars, storeVars, raceVars>>

\* The callback of exec.
ExecCallback(result) ==
    /\ pc = "exec"
    /\ out' = Append(out, IF result.err
                          THEN Err("exec", U("Execution error: ") \o result.stderr)
                          ELSE Log("exec", Trim(result.stdout)))
    /\ pc' = "done"
    /\ UNCHANGED <<config, fileStore, cur, request, saves, spawned, nInv,
                   pathVars, cliVars, storeVars, raceVars>>

\* The process ends once nothing is pending; the next invocation is a new
\* run of the main function, which reads the same configuration document
\* and the session store file as the last run left it.
Exit ==
    /\ pc \in {"done", "crashed"}
    /\ nInv < MaxInvocations
    /\ pc' = "idle"
    /\ cur' = NoInvocation
    /\ request' = <<>>
    /\ out' = <<>>
    /\ saves' = <<>>
    /\ spawned' = <<>>
    /\ UNCHANGED <<config, fileStore, nInv, pathVars, cliVars, storeVars, raceVars>>

Next ==
    \/ \E i \in 1..Len(registry.parents) : ParentAction(i)
    \/ \E j \in 1..Len(registry.subs) : SubAction(j)
    \/ \E data \in Responses : Resolve(data)
    \/ \E failure \in Failures : Reject(failure)
    \/ \E result \in ExecResults : ExecCallback(result)
    \/ Exit

Spec == Init /\ [][Next]_vars

(***************************************************************************)
(* The executor on awkward inputs: a session store file that is not a JSON *)
(* document, a variable whose value holds a double quote, which            *)
(* replaceVariables puts unescaped into the stringified body, and a        *)
(* variable whose value holds a space.                                     *)
(***************************************************************************)
\* A store file cut short, as an interrupted write or an edit leaves it.
CorruptStore == [exists |-> TRUE, data |-> U("{\n  \"id\": \"p")]

\* Documents with a static id that holds a quote, one that holds a space,
\* and a static variable named data, the name the extraction placeholders
\* use.
FaultyConfigs ==
    { [variables |-> <<Prop(U("base"), Str(U("h"))), v>>,
       headers |-> Headers, commands |-> Commands] :
          v \in { Prop(U("id"), Str(U("a\"b"))), Prop(U("id"), Str(U("a b"))), Prop(U("data"), Str(U("D"))) } }

InitFaulty ==
    /\ \/ config \in FaultyConfigs /\ fileStore = NoFile
       \/ config \in Configs /\ fileStore = CorruptStore
    /\ pc = "idle"
    /\ cur = NoInvocation
    /\ request = <<>>
    /\ out = <<>>
    /\ saves = <<>>
    /\ spawned = <<>>
    /\ nInv = 0
    /\ cmdNames = Keys(config.commands)
    /\ regIdx = Len(cmdNames)
    /\ registry = setupCLI(cmdNames)
    /\ PathIdle
    /\ StoreIdle
    /\ RaceIdle

SpecFaulty == InitFaulty /\ [][Next]_vars

\* The executor's variables in the specifications that do not run it.
ExecIdle ==
    /\ config = [variables |-> <<>>, headers |-> <<>>, commands |-> <<>>]
    /\ pc = "idle"
    /\ cur = NoInvocation
    /\ request = <<>>
    /\ out = <<>>
    /\ saves = <<>>
    /\ spawned = <<>>
    /\ nInv = 0

CliIdle == cmdNames = <<>> /\ regIdx = 0 /\ registry = NoRegistry

(***************************************************************************)
(* The Path Extractor on its own: getNestedProperty applied to a root and  *)
(* a path.                                                                 *)
(***************************************************************************)
Roots ==
    { Obj(<<Prop(U("user-id"), Str(U("x")))>>),
      Obj(<<Prop(U("userid"), Str(U("y")))>>),
      Obj(<<Prop(U("user-id"), Str(U("x"))), Prop(U("userid"), Str(U("y")))>>),
      Obj(<<Prop(U("a"), Obj(<<Prop(U("b"), Obj(<<Prop(U("c"), Str(U("z")))>>))>>))>>),
      Obj(<<Prop(U("a"), Obj(<<Prop(U("b-c"), Str(U("z"))), Prop(U("bc"), Str(U("w")))>>))>>),
      Obj(<<Prop(U("a"), Str(U("leaf")))>>),
      Obj(<<Prop(U("a"), Str(<<>>))>>),
      Obj(<<Prop(U("a"), Arr(<<Str(U("p")), Num(U("0"))>>))>>),
      Obj(<<Prop(U("a"), Null)>>),
      Obj(<<>>) }

Paths ==
    { U("user-id"), U("userid"), U("user--id"), U("a"), U("a.b"), U("a.b.c"), U("a.b-c"), U("a.bc"),
      U("a.x"), U("x"), U("x.y"), U("a.x.y"), U("a.b.c.d"),
      U("constructor"), U("toString.name"), U("a.length"), U("a.0"), U("a.1.x") }

InitPath ==
    /\ root \in Roots
    /\ path \in Paths
    /\ extracted = Pending
    /\ fileStore = NoFile
    /\ ExecIdle
    /\ CliIdle
    /\ StoreIdle
    /\ RaceIdle

\* A call getNestedProperty(root, path).
Extract ==
    /\ extracted = Pending
    /\ extracted' = getNestedProperty(root, path)
    /\ UNCHANGED <<root, path, execVars, cliVars, storeVars, raceVars>>

NextPath == Extract

SpecPath == InitPath /\ [][NextPath]_vars

(***************************************************************************)
(* The CLI Registrar on its own: setupCLI over the command names of a      *)
(* configuration document, one forEach iteration at a time.                *)
(***************************************************************************)
\* Command names a configuration document may hold.
NamePool ==
    { U("get list"), U("get <id>"), U("get"), U("put <id> [tag]"), U("login <user> <pass>"),
      U("constructor"), U("toString now") }

\* The most command names a document of the model holds.
MaxCommands == 3

\* Object.keys(config.commands): distinct names, in document order.
NameLists ==
    { names \in UNION { [1..n -> NamePool] : n \in 0..MaxCommands } :
        \A i, j \in 1..Len(names) : i # j => names[i] # names[j] }

InitCLI ==
    /\ cmdNames \in NameLists
    /\ regIdx = 0
    /\ registry = NoRegistry
    /\ fileStore = NoFile
    /\ ExecIdle
    /\ PathIdle
    /\ StoreIdle
    /\ RaceIdle

\* One iteration of the forEach of setupCLI; a throw ends the forEach.
RegisterNext ==
    /\ regIdx < Len(cmdNames)
    /\ ~registry.thrown
    /\ registry' = RegisterCommand(registry, cmdNames[regIdx + 1])
    /\ regIdx' = regIdx + 1
    /\ UNCHANGED <<cmdNames, execVars, pathVars, storeVars, raceVars>>

\* program.parse dispatches to the action handler of parent command i: the
\* command name and the arguments it calls makeRequest with.
DispatchParent(i) ==
    LET p == registry.parents[i] IN
    /\ regIdx = Len(cmdNames)
    /\ ~registry.thrown
    /\ pc = "idle"
    /\ \E positional \in [1..Len(p.mandatory) -> ArgValues] :
       \E options \in [1..Len(p.optional) -> OptionInputs] :
           cur' = [NoInvocation EXCEPT !.name = p.cmd,
                                       !.args = allArgs(p, positional, options),
                                       !.called = p.name]
    /\ pc' = "called"
    /\ UNCHANGED <<config, fileStore, request, out, saves, spawned, nInv,
                   pathVars, cliVars, storeVars, raceVars>>

\* program.parse dispatches to the action handler of subcommand j.
DispatchSub(j) ==
    LET sub == registry.subs[j] IN
    /\ regIdx = Len(cmdNames)
    /\ ~registry.thrown
    /\ pc = "idle"
    /\ cur' = [NoInvocation EXCEPT !.name = sub.cmd, !.args = subArgs(sub),
                                   !.called = sub.parent \o U(" ") \o sub.name]
    /\ pc' = "called"
    /\ UNCHANGED <<config, fileStore, request, out, saves, spawned, nInv,
                   pathVars, cliVars, storeVars, raceVars>>

NextCLI ==
    \/ RegisterNext
    \/ \E i \in 1..Len(registry.parents) : DispatchParent(i)
    \/ \E j \in 1..Len(registry.subs) : DispatchSub(j)

SpecCLI == InitCLI /\ [][NextCLI]_vars

(***************************************************************************)
(* The Session Store on its own: saveConfigStore and loadConfigStore.      *)
(***************************************************************************)
\* The flat string-to-string mappings of the model, as the objects a spread
\* builds: their keys in the order of Object.keys.
Mappings ==
    LET StoreKeys == { U("token"), U("user id"), U("7"), U("__proto__") }
        StoreValues == { <<>>, U("abc123"), U("a\"b"), U("c\\"), U("x, \"y\": z}"),
                         U("a\tb\r\n"), <<233, 55357, 56832, 56832>> }
    IN
    { <<>> }
    \cup { <<Prop(k, Str(v))>> : k \in StoreKeys, v \in StoreValues }
    \cup UNION { { Ordered(<<Prop(k, Str(v)), Prop(l, Str(w))>>) :
                        l \in StoreKeys \ {k}, v \in StoreValues, w \in StoreValues } :
                    k \in StoreKeys }

\* A store file edited by hand: white space of every kind between the
\* tokens, values that are no strings, numbers that are no doubles, and
\* escapes.
EditedStore ==
    [exists |-> TRUE,
     data |-> U("{\"n\": 1.50,\t\"big\": 9007199254740993, \"tiny\": -3e-324,"
                 \o " \"o\": {\"a\": [true, null]},\r\n \"e\": \"\\u00e9\\u0041\\t\"}")]

\* A store file that holds a JSON document that is no object.
ArrayStore == [exists |-> TRUE, data |-> U("[]")]

InitStore ==
    /\ fileStore \in { NoFile, saveConfigStore(<<Prop(U("old"), Str(U("kept?")))>>),
                       EditedStore, ArrayStore }
    /\ loaded = Pending
    /\ lastSaved = Pending
    /\ ExecIdle
    /\ PathIdle
    /\ CliIdle
    /\ RaceIdle

\* A call saveConfigStore(m).
Save(m) ==
    /\ fileStore' = saveConfigStore(m)
    /\ lastSaved' = Obj(m)
    /\ loaded' = Pending
    /\ UNCHANGED <<config, pc, cur, request, out, saves, spawned, nInv,
                   pathVars, cliVars, raceVars>>

\* A call loadConfigStore().
Load ==
    /\ loaded = Pending
    /\ loaded' = loadConfigStore(fileStore)
    /\ UNCHANGED <<fileStore, lastSaved, config, pc, cur, request, out, saves,
                   spawned, nInv, pathVars, cliVars, raceVars>>

NextStore == (\E m \in Mappings : Save(m)) \/ Load

SpecStore == InitStore /\ [][NextStore]_vars

(***************************************************************************)
(* Two invocations running at the same time as separate processes.  Each   *)
(* runs makeRequest on its own variables; the session store file is all    *)
(* they share.  A process takes a step at each system call on that file    *)
(* and at each callback: fs.readFileSync reads what the file holds at that *)
(* moment, and fs.writeFileSync opens the file, which empties it, and then *)
(* writes its text at its own offset in one or more write calls, so that   *)
(* the other process may read or write in between.  The texts written here *)
(* are ASCII: a byte of the file is a code unit.                           *)
(***************************************************************************)
Processes == {1, 2}

\* The number of write calls fs.writeFileSync may need for one text.
WritePieces == 2

IdleProcess ==
    [pc |-> "idle", name |-> <<>>, command |-> NoInvocation.command, args |-> <<>>,
     loadedStore |-> <<>>, updatedVariables |-> <<>>, data |-> Undefined,
     request |-> <<>>, out |-> <<>>, spawned |-> <<>>,
     saved |-> <<>>, text |-> <<>>, written |-> 0]

\* The configuration document both processes read.
RaceConfigs == { c \in Configs : c.variables = <<Prop(U("base"), Str(U("h")))>> }

\* Response bodies the server may answer the two processes with.
RaceResponses ==
    { Obj(<<Prop(U("token"), Str(U("abc123")))>>), Obj(<<Prop(U("v"), Str(U("x")))>>) }

InitRace ==
    /\ config \in RaceConfigs
    /\ fileStore \in InitialStores
    /\ pc = "idle"
    /\ cur = NoInvocation
    /\ request = <<>>
    /\ out = <<>>
    /\ saves = <<>>
    /\ spawned = <<>>
    /\ nInv = 0
    /\ cmdNames = Keys(config.commands)
    /\ regIdx = Len(cmdNames)
    /\ registry = setupCLI(cmdNames)
    /\ procs = [p \in Processes |-> IdleProcess]
    /\ PathIdle
    /\ StoreIdle

\* Process p runs makeRequest up to its first await (axios) or, with no
\* endpoint, to its end: it reads the session store as the file is now.  A
\* throw of loadConfigStore, of replaceVariables or of the body's JSON.parse
\* is caught by nothing and ends the process.
RaceStart(p, name, command, args) ==
    LET configStore == loadConfigStore(fileStore)
        updatedVariables == MergeStore(config.variables, Props(configStore))
        Begun(invocation, thrown, req, plain, ex) ==
            IF thrown
            THEN [IdleProcess EXCEPT !.pc = "crashed",
                                     !.name = name,
                                     !.command = command,
                                     !.args = args]
            ELSE IF Truthy(command.endpoint)
            THEN IF RequestThrows(req)
                 THEN [invocation EXCEPT !.pc = "crashed"]
                 ELSE [invocation EXCEPT !.pc = "awaiting", !.request = <<req>>]
            ELSE IF Truthy(command.response) /\ IsThrow(plain)
            THEN [invocation EXCEPT !.pc = "crashed"]
            ELSE [invocation EXCEPT
                      !.pc = ex.pc,
                      !.spawned = ex.spawned,
                      !.out = IF Truthy(command.response)
                              THEN <<Log("response", plain.s)>>
                              ELSE <<>>]
    IN  /\ procs[p].pc = "idle"
        /\ procs' = [procs EXCEPT ![p] =
               Begun([IdleProcess EXCEPT !.name = name,
                                           !.command = command,
                                           !.args = args,
                                           !.loadedStore = Props(configStore),
                                           !.updatedVariables = updatedVariables],
                       IsThrow(configStore),
                       Request(command, updatedVariables, config.headers, args),
                       PlainResponse(command, updatedVariables, args),
                       StartExec(command, updatedVariables, args))]
        /\ UNCHANGED <<execVars, pathVars, cliVars, storeVars>>

\* The action handler of parent command i in process p.
RaceParent(p, i) ==
    \E positional \in [1..Len(registry.parents[i].mandatory) -> ArgValues] :
    \E options \in [1..Len(registry.parents[i].optional) -> OptionInputs] :
        RaceStart(p, registry.parents[i].cmd,
                  Lookup(config.commands, registry.parents[i].cmd),
                  allArgs(registry.parents[i], positional, options))

\* The action handler of subcommand j in process p.
RaceSub(p, j) ==
    RaceStart(p, registry.subs[j].cmd, Lookup(config.commands, registry.subs[j].cmd),
              subArgs(registry.subs[j]))

\* The try block in process p from the response on, given what its response
\* template and its set block came to: up to the open call of
\* fs.writeFileSync when the set block saves, to the start of the execute
\* command when it does not.
RaceSettle(p, data, shown, applied, saved, ex) ==
    /\ procs[p].pc = "awaiting"
    /\ fileStore' = IF applied.saved THEN [exists |-> TRUE, data |-> <<>>] ELSE fileStore
    /\ procs' = [procs EXCEPT ![p] =
           IF applied.saved
           THEN [procs[p] EXCEPT
                          !.pc = "saving",
                          !.data = data,
                          !.updatedVariables = applied.vars,
                          !.out = @ \o (IF Truthy(procs[p].command.response)
                                           /\ ~IsThrow(shown)
                                        THEN <<Log("response", shown.s)>> ELSE <<>>),
                          !.saved = <<saved>>,
                          !.text = saveConfigStore(saved).data,
                          !.written = 0]
           ELSE [procs[p] EXCEPT
                          !.pc = ex.pc,
                          !.spawned = ex.spawned,
                          !.data = data,
                          !.updatedVariables = applied.vars,
                          !.out = @ \o (IF Truthy(procs[p].command.response)
                                           /\ ~IsThrow(shown)
                                        THEN <<Log("response", shown.s)>> ELSE <<>>)
                                    \o (IF IsThrow(shown) \/ applied.thrown
                                        THEN <<Err("error", U("Error: TypeError"))>>
                                        ELSE <<>>)]]
    /\ UNCHANGED <<config, pc, cur, request, out, saves, spawned, nInv,
                   pathVars, cliVars, storeVars>>

\* axios resolves in process p with a 2xx response whose body is data: the
\* response template, then the set clause, and what follows them.
RaceResolve(p, data) ==
    LET Set(shown, applied) ==
            RaceSettle(p, data, shown, applied,
                       SavedVariables(applied.vars, procs[p].args),
                       StartExec(procs[p].command, applied.vars, procs[p].args))
        Shown(shown) ==
            Set(shown, TrySet(procs[p].command, procs[p].updatedVariables,
                                    procs[p].args, data, shown))
    IN  Shown(TryResponse(procs[p].command, procs[p].updatedVariables,
                          procs[p].args, data))

\* A write call of fs.writeFileSync in process p: the rest of its text
\* (whole), or one piece of it when more than a piece is left, lands at the
\* offset p has reached, over what the file holds there; a file that ends
\* before that offset is filled up with zero bytes.  After the last call the
\* try block ends and the execute command starts.
RaceWrite(p, whole) ==
    LET text == procs[p].text
        from == procs[p].written
        piece == (Len(text) + WritePieces - 1) \div WritePieces
        upto == IF whole THEN Len(text) ELSE from + piece
        ex == StartExec(procs[p].command, procs[p].updatedVariables, procs[p].args)
        held == fileStore.data \o [i \in 1..(from - Len(fileStore.data)) |-> 0]
    IN  /\ procs[p].pc = "saving"
        /\ upto <= Len(text)
        /\ whole \/ upto < Len(text)
        /\ fileStore' = [exists |-> TRUE,
                         data |-> SubSeq(held, 1, from) \o SubSeq(text, from + 1, upto)
                                  \o SubSeq(held, upto + 1, Len(held))]
        /\ procs' = [procs EXCEPT ![p] =
               IF upto < Len(text)
               THEN [procs[p] EXCEPT !.written = upto]
               ELSE [procs[p] EXCEPT
                              !.written = upto,
                              !.pc = ex.pc,
                              !.spawned = ex.spawned,
                              !.out = Append(@, Log("saved",
                                                    U("Updated configuration saved:")))]]
        /\ UNCHANGED <<config, pc, cur, request, out, saves, spawned, nInv,
                       pathVars, cliVars, storeVars>>

\* axios rejects in process p: the catch block, and the start of the
\* execute command.
RaceReject(p, failure) ==
    LET ex == StartExec(procs[p].command, procs[p].updatedVariables, procs[p].args) IN
    /\ procs[p].pc = "awaiting"
    /\ procs' = [procs EXCEPT ![p].pc = ex.pc,
                              ![p].spawned = ex.spawned,
                              ![p].out = Append(@, Err("error", U("Error: ") \o failure))]
    /\ UNCHANGED <<execVars, pathVars, cliVars, storeVars>>

\* The callback of exec in process p.
RaceExecCallback(p, result) ==
    /\ procs[p].pc = "exec"
    /\ procs' = [procs EXCEPT ![p].pc = "done",
                              ![p].out = Append(@, IF result.err
                                                   THEN Err("exec", U("Execution error: ")
                                                                    \o result.stderr)
                                                   ELSE Log("exec", Trim(result.stdout)))]
    /\ UNCHANGED <<execVars, pathVars, cliVars, storeVars>>

NextRace ==
    \E p \in Processes :
        \/ \E i \in 1..Len(registry.parents) : RaceParent(p, i)
        \/ \E j \in 1..Len(registry.subs) : RaceSub(p, j)
        \/ \E data \in RaceResponses : RaceResolve(p, data)
        \/ \E whole \in BOOLEAN : RaceWrite(p, whole)
        \/ \E failure \in Failures : RaceReject(p, failure)
        \/ \E result \in ExecResults : RaceExecCallback(p, result)

SpecRace == InitRace /\ [][NextRace]_vars

(***************************************************************************)
(* Properties of the executor (Spec).                                      *)
(***************************************************************************)
\* The value of k by layered precedence in the current invocation: the
\* invocation argument, else the session store as loaded, else the static
\* variable, else the empty string; as text.
Layered(k) ==
    IF HasKey(cur.args, k) THEN String(Own(cur.args, k)).s
    ELSE IF HasKey(cur.loadedStore, k) THEN String(Own(cur.loadedStore, k)).s
    ELSE IF HasKey(config.variables, k) THEN String(Own(config.variables, k)).s
    ELSE <<>>

\* The field k of the response body the current invocation received, ""
\* when the body has no such text field.
DataField(k) ==
    IF cur.data.t = "object" /\ HasKey(cur.data.o, k)
                             /\ Lookup(cur.data.o, k).t = "string"
    THEN Lookup(cur.data.o, k).s
    ELSE <<>>

\* The request of the current invocation was answered with a body whose
\* text fields hold no placeholder token.
PlainData ==
    /\ cur.data.t = "object"
    /\ \A i \in 1..Len(cur.data.o) :
           cur.data.o[i].v.t = "string" => IndexOf(cur.data.o[i].v.s, U("$")) = 0

\* The endpoint and the body the templates of the current command come to
\* under layered precedence.
LayeredUrl ==
    IF Is(cur.name, "login <user> <pass>") THEN Layered(U("base")) \o U("/login")
    ELSE IF Is(cur.name, "get <id>") THEN Layered(U("base")) \o U("/items/") \o Layered(U("id"))
    ELSE IF Is(cur.name, "get list") THEN Layered(U("base")) \o U("/items")
    ELSE Layered(U("base")) \o U("/sync")

LayeredBody ==
    IF Is(cur.name, "login <user> <pass>")
    THEN Obj(<<Prop(U("user"), Str(Layered(U("user")))), Prop(U("pass"), Str(Layered(U("pass"))))>>)
    ELSE IF Is(cur.name, "get <id>") THEN Obj(<<Prop(U("q"), Str(Layered(U("id"))))>>)
    ELSE Obj(<<>>)

\* C1 as stated: in every invocation a placeholder $k of the endpoint, body
\* or response template resolves to the invocation argument k if one was
\* supplied, else to the session store's value of k, else to the static
\* variable k, else to the empty string; a higher layer overrides a lower one.
C1_LayeredPrecedence ==
    /\ request # <<>> =>
           /\ request[1].url = Str(LayeredUrl)
           /\ request[1].data = LayeredBody
    /\ (Is(cur.name, "hello <name>") /\ pc = "done") =>
           out = <<Log("response", U("Hello ") \o Layered(U("name")))>>
    /\ (Is(cur.name, "show [id]") /\ pc = "done") =>
           out = <<Log("response", U("id=") \o Layered(U("id")))>>
    /\ (Is(cur.name, "about") /\ pc = "done") =>
           out = <<Log("response", U("by ") \o Layered(U("constructor")))>>
    /\ (Is(cur.name, "get <id>") /\ pc = "done" /\ cur.data = Obj(<<Prop(U("v"), Str(U("x")))>>)) =>
           out[1] = Log("response", Layered(U("id")) \o U(": x"))

TokenBody == Obj(<<Prop(U("token"), Str(U("abc123")))>>)

\* The login command has completed with the response body {"token":"abc123"}.
LoggedIn ==
    Is(cur.name, "login <user> <pass>") /\ cur.data = TokenBody /\ pc = "done"

C2_Persisted ==
    LoggedIn =>
        /\ Lookup(Props(loadConfigStore(fileStore)), U("token")) = Str(U("abc123"))
        /\ (cur.loadedStore = <<>> /\ config.variables = <<>>) =>
               loadConfigStore(fileStore) = TokenBody

C2_NextInvocation ==
    (Lookup(Props(loadConfigStore(fileStore)), U("token")) = Str(U("abc123"))
         /\ nInv' # nInv /\ request' # <<>>) =>
        Lookup(request'[1].headers.o, U("Authorization")) = Str(U("Bearer abc123"))

C2_FromStore ==
    (request # <<>> /\ Lookup(cur.loadedStore, U("token")) = Str(U("abc123"))) =>
        Lookup(request[1].headers.o, U("Authorization")) = Str(U("Bearer abc123"))

\* C2: after a successful login whose set is {token: "$data.token"} and whose
\* response body is {"token":"abc123"}, the session store holds token =
\* "abc123" (and is exactly {token: "abc123"} when it started empty and the
\* document has no static variables); an invocation that starts while the
\* store holds that token loads it and sends the header template
\* "Bearer $token" as "Bearer abc123".
C2_LoginThenHeader ==
    /\ []C2_Persisted
    /\ [][C2_NextInvocation]_vars
    /\ []C2_FromStore

\* C2 witness: the second invocation sends the token the first one stored.
C2_Witness ==
    /\ nInv = 2
    /\ pc = "awaiting"
    /\ config.variables = <<>>
    /\ loadConfigStore(fileStore) = TokenBody
    /\ cur.loadedStore = TokenBody.o
    /\ Lookup(request[1].headers.o, U("Authorization")) = Str(U("Bearer abc123"))

\* The set clause of the current command has been processed.
SetFired ==
    /\ cur.name \in {U("login <user> <pass>"), U("get <id>")}
    /\ pc = "done"
    /\ PlainData

\* The mapping base updated with every set entry of the current command.
WithSetEntries(base) ==
    IF Is(cur.name, "login <user> <pass>")
    THEN Assign(base, U("token"), Str(DataField(U("token"))))
    ELSE Assign(Assign(base, U("v"), Str(DataField(U("v")))),
                U("last"), Str(Layered(U("id")) \o U("=") \o DataField(U("v"))))

\* C3 as stated: the mapping saved is static variables overlaid by the loaded
\* store overlaid by the invocation arguments, updated with every set entry.
C3_SavedIsWholeScope ==
    SetFired =>
        saves = <<WithSetEntries(Spread(Spread(config.variables, cur.loadedStore),
                                        cur.args))>>

\* C3: when a command's set clause fires, the mapping written by the one
\* save, made after all set entries are processed, is the static variables
\* overlaid by the loaded store, updated with every set entry; the
\* invocation arguments are not part of it.
C3_SavedIsStoreScope ==
    SetFired =>
        /\ saves = <<WithSetEntries(Spread(config.variables, cur.loadedStore))>>
        /\ loadConfigStore(fileStore) = Obj(saves[1])

\* C3 witness: a set clause fired in an invocation that was given arguments.
C3_Witness ==
    /\ SetFired
    /\ Is(cur.name, "get <id>")
    /\ cur.args = <<Prop(U("id"), Str(U("7")))>>
    /\ saves # <<>>
    /\ ~HasKey(saves[1], U("id"))
    /\ Lookup(saves[1], U("last")) = Str(U("7=x"))

\* C4 as stated: a $k in a header value is replaced by the invocation
\* argument k when one was supplied, otherwise by the store value, then the
\* static value.
C4_HeadersUseScope ==
    request # <<>> => Lookup(request[1].headers.o, U("X-Id")) = Str(Layered(U("id")))

\* What a response template shows for the text s.
Displayed(s) == IF Len(s) > 50 THEN SubSeq(s, 1, 50) \o U("...") ELSE s

\* The command "get <id>" has completed with a body whose field v is a text
\* without placeholder tokens.
GotValue ==
    /\ Is(cur.name, "get <id>")
    /\ pc = "done"
    /\ PlainData
    /\ HasKey(cur.data.o, U("v"))

\* C7: a text value holding no placeholder token is shown by a response
\* template as its first 50 characters plus "..." when it is longer than 50
\* characters and unchanged otherwise, while the same value extracted by a
\* set entry is written to the scope and persisted in full.
C7_TruncationOnlyDisplayed ==
    GotValue =>
        /\ out[1] = Log("response", Layered(U("id")) \o U(": ") \o Displayed(DataField(U("v"))))
        /\ Lookup(cur.updatedVariables, U("v")) = Str(DataField(U("v")))
        /\ Lookup(saves[1], U("v")) = Str(DataField(U("v")))
        /\ Lookup(Props(loadConfigStore(fileStore)), U("v")) = Str(DataField(U("v")))

\* C7 witness: a value of 60 characters was shown cut and stored whole.
C7_Witness ==
    /\ GotValue
    /\ Len(DataField(U("v"))) = 60
    /\ Len(out[1].text) = Len(Layered(U("id"))) + 2 + 53
    /\ Len(Lookup(Props(loadConfigStore(fileStore)), U("v")).s) = 60

\* What the current invocation displayed, the output of its shell command
\* aside.
Shown == SelectSeq(out, LAMBDA e : e.kind # "exec")

\* C9: during the invocation of a command with no endpoint no request is
\* issued; its response template, if it has one, is displayed resolved
\* against the scope, and otherwise nothing is displayed.
C9_NoEndpointNoRequest ==
    (cur.name # <<>> /\ ~Truthy(cur.command.endpoint)) =>
        /\ request = <<>>
        /\ pc \in {"exec", "done"}
        /\ IF Is(cur.name, "hello <name>")
           THEN Shown = <<Log("response", U("Hello ") \o Layered(U("name")))>>
           ELSE IF Is(cur.name, "show [id]")
           THEN Shown = <<Log("response", U("id=") \o Layered(U("id")))>>
           ELSE IF Is(cur.name, "about")
           THEN /\ Len(Shown) = 1
                /\ Shown[1].kind = "response"
                /\ StartsWith(Shown[1].text, U("by "))
                /\ IndexOf(Shown[1].text, U("$")) = 0
           ELSE Shown = <<>>

\* C9 witness: "Hello $name" displayed with the argument, and no request.
C9_Witness ==
    /\ Is(cur.name, "hello <name>")
    /\ cur.args = <<Prop(U("name"), Str(U("7")))>>
    /\ out = <<Log("response", U("Hello 7"))>>
    /\ request = <<>>

(***************************************************************************)
(* Properties of the Path Extractor (SpecPath).                            *)
(***************************************************************************)
\* The keys of o that are part once hyphens are ignored, by position.
IgnoringHyphens(o, part) ==
    { i \in 1..Len(o) : StripAll(o[i].k, U("-")) = StripAll(part, U("-")) }

\* A hyphen-tolerant lookup of one segment: the exact key when present,
\* otherwise the first key that is the segment once hyphens are ignored,
\* otherwise absent.
Tolerant(acc, part) ==
    IF acc.t # "object" THEN Undefined
    ELSE IF HasKey(acc.o, part) THEN Lookup(acc.o, part)
    ELSE IF IgnoringHyphens(acc.o, part) # {}
    THEN acc.o[CHOOSE i \in IgnoringHyphens(acc.o, part) :
                   \A j \in IgnoringHyphens(acc.o, part) : i <= j].v
    ELSE Undefined

\* C5 as stated: at a segment the exact key is used when present, and
\* otherwise the lookup is retried ignoring hyphens, so that on the root
\* {"user-id": "x"} the paths "user-id" and "userid" both return "x"; a path
\* that matches nothing returns absent (paths of one segment).
C5_HyphenTolerant ==
    (extracted # Pending /\ IndexOf(path, U(".")) = 0) =>
        extracted = Tolerant(root, path)

\* The first segment of the path is no key of the root, hyphens or not.
FirstSegmentMissing ==
    \A i \in 1..Len(root.o) :
        root.o[i].k \notin { Split(path, U("."))[1], StripAll(Split(path, U("."))[1], U("-")) }

\* C6 as stated: the extractor never throws, and returns absent when a
\* segment is missing, also when further segments follow the missing one.
C6_NeverThrows ==
    extracted # Pending =>
        /\ ~IsThrow(extracted)
        /\ FirstSegmentMissing => extracted = Undefined

(***************************************************************************)
(* Properties of the Session Store (SpecStore).                            *)
(***************************************************************************)
\* C8: a load after save(m) returns a mapping equal to m whatever the store
\* held before; a load with no store file returns the empty mapping; a load
\* does not fail.
C8_RoundTrip ==
    /\ (loaded # Pending /\ lastSaved # Pending) => loaded = lastSaved
    /\ (loaded # Pending /\ ~fileStore.exists) => loaded = Obj(<<>>)
    /\ ~IsThrow(loaded)

\* C8 witness: a mapping of two keys with a quote in a value, saved over a
\* store that held something else, and loaded.
C8_Witness ==
    /\ loaded # Pending
    /\ lastSaved # Pending
    /\ loaded = lastSaved
    /\ Len(loaded.o) = 2
    /\ loaded.o[1].v = Str(U("a\"b"))

(***************************************************************************)
(* Properties of the CLI Registrar (SpecCLI).                              *)
(***************************************************************************)
\* program.parse called the action handler registered under the name.
Called(name) == pc = "called" /\ cur.called = name

\* The document holds both "get list" and "get <id>", and setupCLI is done.
BothRegistered ==
    /\ regIdx = Len(cmdNames)
    /\ \E i \in 1..Len(cmdNames) : Is(cmdNames[i], "get list")
    /\ \E i \in 1..Len(cmdNames) : Is(cmdNames[i], "get <id>")

GetParents ==
    { i \in 1..Len(registry.parents) : Is(registry.parents[i].name, "get") }

ListSubs ==
    { j \in 1..Len(registry.subs) :
        Is(registry.subs[j].parent, "get") /\ Is(registry.subs[j].name, "list") }

\* The subcommand list under get declares no arguments and runs "get list"
\* with an empty argument set.
ListNested ==
    /\ Cardinality(ListSubs) = 1
    /\ \A j \in ListSubs :
           registry.subs[j].declared = <<>> /\ Is(registry.subs[j].cmd, "get list")
    /\ Called(U("get list")) => (Is(cur.name, "get list") /\ cur.args = <<>>)

\* The first command name of the document whose first word is get.
FirstGet ==
    cmdNames[CHOOSE i \in 1..Len(cmdNames) :
                 /\ cmdNames[i] \in {U("get list"), U("get <id>"), U("get")}
                 /\ \A j \in 1..(i - 1) : cmdNames[j] \notin {U("get list"), U("get <id>"), U("get")}]

\* C10 as stated: with both names in the document there is exactly one parent
\* command get, with id as its mandatory argument and running "get <id>",
\* and a subcommand list under it with no arguments, running "get list".
C10_ParentHasId ==
    BothRegistered =>
        /\ Cardinality(GetParents) = 1
        /\ \A i \in GetParents :
               /\ registry.parents[i].mandatory = <<U("id")>>
               /\ Is(registry.parents[i].cmd, "get <id>")
        /\ Called(U("get")) => Is(cur.name, "get <id>")
        /\ ListNested

\* C10: with both names in the document there is exactly one parent command
\* get, made from the first command name of the document whose first word is
\* get: it has id as its mandatory argument and runs "get <id>" when that
\* name is "get <id>", and has no arguments and runs that first name
\* otherwise; list is a subcommand under it with no arguments, running
\* "get list" with an empty argument set.
C10_ParentIsFirstGet ==
    BothRegistered =>
        /\ Cardinality(GetParents) = 1
        /\ \A i \in GetParents :
               /\ registry.parents[i].cmd = FirstGet
               /\ registry.parents[i].mandatory =
                      IF Is(FirstGet, "get <id>") THEN <<U("id")>> ELSE <<>>
        /\ Called(U("get")) =>
               /\ cur.name = FirstGet
               /\ \A k \in 1..Len(cur.args) : Is(FirstGet, "get <id>") /\ Is(cur.args[k].k, "id")
        /\ ListNested

\* C10 witness: "get <id>" comes first, and the parent get was called with id.
C10_Witness ==
    /\ BothRegistered
    /\ Is(cmdNames[1], "get <id>")
    /\ Called(U("get"))
    /\ Is(cur.name, "get <id>")
    /\ cur.args = <<Prop(U("id"), Str(U("7")))>>

\* The parent token of a command name: the text before its first space.
ParentToken(name) ==
    IF IndexOf(name, U(" ")) = 0 THEN name ELSE SubSeq(name, 1, IndexOf(name, U(" ")) - 1)

\* The position in the document of the first command name with the parent
\* token of the name at position i.
FirstWithToken(i) ==
    CHOOSE f \in 1..i :
        /\ ParentToken(cmdNames[f]) = ParentToken(cmdNames[i])
        /\ \A g \in 1..(f - 1) : ParentToken(cmdNames[g]) # ParentToken(cmdNames[i])

\* The arguments a command name declares between < and >.
DeclaredMandatory(name) ==
    IF Is(name, "get <id>") \/ Is(name, "put <id> [tag]") THEN <<U("id")>>
    ELSE IF Is(name, "login <user> <pass>") THEN <<U("user"), U("pass")>>
    ELSE <<>>

\* Each parent token of the document is registered as a parent once, with
\* the arguments and the handler of the first command name that has it.
ParentOnceFirstWins ==
    regIdx = Len(cmdNames) =>
        \A i \in 1..Len(cmdNames) :
            /\ Cardinality({ p \in 1..Len(registry.parents) :
                   registry.parents[p].name = ParentToken(cmdNames[i]) }) = 1
            /\ \A p \in 1..Len(registry.parents) :
                   registry.parents[p].name = ParentToken(cmdNames[i]) =>
                       /\ registry.parents[p].cmd = cmdNames[FirstWithToken(i)]
                       /\ registry.parents[p].mandatory =
                              DeclaredMandatory(cmdNames[FirstWithToken(i)])

\* Every command name that is not the first with its parent token is
\* registered as a subcommand of that parent.
LaterAreSubcommands ==
    regIdx = Len(cmdNames) =>
        \A i \in 1..Len(cmdNames) :
            FirstWithToken(i) # i =>
                \E j \in 1..Len(registry.subs) :
                    /\ registry.subs[j].cmd = cmdNames[i]
                    /\ registry.subs[j].parent = ParentToken(cmdNames[i])

\* C11 as stated: each parent token is registered as a parent command exactly
\* once, with the arguments and the handler of the first command name in
\* document order that starts with it, and every later command name with
\* the same parent token is registered as a subcommand of that parent.
C11_ParentOnceLaterNested == ParentOnceFirstWins /\ LaterAreSubcommands

(***************************************************************************)
(* Properties of the executor on inputs JSON.parse rejects (SpecFaulty).   *)
(***************************************************************************)
\* C12 as stated: an invocation that has started never ends with an
\* uncaught exception; a failure while loading the session store or while
\* resolving the body is caught and reported like any other error of the
\* invocation.
C12_NoUncaughtException ==
    /\ pc # "crashed"
    /\ (cur.name # <<>> /\ fileStore = CorruptStore /\ pc = "done") =>
           \E i \in 1..Len(out) : out[i].stream = "stderr"

(***************************************************************************)
(* Further properties of the executor (Spec).                              *)
(***************************************************************************)
\* The request of the current invocation was answered and the handling of
\* the answer has run to its end.
Answered == cur.data.t = "object" /\ pc \in {"done", "exec"}

NoErrorReported == \A i \in 1..Len(out) : out[i].stream # "stderr"

\* C13 as stated: when a $data.<path> of a response template names a
\* location the response body does not have, at any depth, the text
\* "undefined" is displayed in its place, no error is reported, and the set
\* entries of the command are still applied and persisted.
C13_MissIsNotAnError ==
    /\ (Answered /\ Is(cur.name, "get list") /\ ~HasKey(cur.data.o, U("a"))) =>
           /\ out = <<Log("response", U("first: undefined"))>>
           /\ NoErrorReported
    /\ (Answered /\ Is(cur.name, "get <id>") /\ ~HasKey(cur.data.o, U("v"))) =>
           /\ out[1] = Log("response", Layered(U("id")) \o U(": undefined"))
           /\ NoErrorReported
           /\ Len(saves) = 1
           /\ Lookup(Props(loadConfigStore(fileStore)), U("v")) = Str(<<>>)

(***************************************************************************)
(* Properties of concurrent invocations (SpecRace).                        *)
(***************************************************************************)
\* The text field k of a response body, "" when it has none.
BodyField(data, k) == IF HasKey(data.o, k) THEN Lookup(data.o, k).s ELSE <<>>

\* The value of k for process p: its argument, else the store as p loaded
\* it, else the static variable, else the empty string.
RaceLayered(p, k) ==
    IF HasKey(procs[p].args, k) THEN String(Own(procs[p].args, k)).s
    ELSE IF HasKey(procs[p].loadedStore, k) THEN String(Own(procs[p].loadedStore, k)).s
    ELSE IF HasKey(config.variables, k) THEN String(Own(config.variables, k)).s
    ELSE <<>>

\* What process p writes when its set clause fires on the body data: the
\* static variables overlaid by the store as p loaded it at its start,
\* updated with the set entries.
RaceWritten(p, data) ==
    IF Is(procs[p].name, "login <user> <pass>")
    THEN Assign(Spread(config.variables, procs[p].loadedStore),
                U("token"), Str(BodyField(data, U("token"))))
    ELSE Assign(Assign(Spread(config.variables, procs[p].loadedStore),
                       U("v"), Str(BodyField(data, U("v")))),
                U("last"), Str(RaceLayered(p, U("id")) \o U("=") \o BodyField(data, U("v"))))

\* Process p completes its save in this step: the last write call of
\* fs.writeFileSync returns.
Saves(p) ==
    /\ procs[p].pc = "saving"
    /\ procs'[p].pc # "saving"
    /\ procs[p].name \in {U("login <user> <pass>"), U("get <id>")}

\* A process reads the session store when it starts and never again.
C14_LoadsOnceAtStart ==
    \A p \in Processes :
        IF procs[p].pc = "idle" /\ procs'[p].pc # "idle"
        THEN \/ IsThrow(loadConfigStore(fileStore))
             \/ procs'[p].loadedStore = Props(loadConfigStore(fileStore))
        ELSE procs'[p].loadedStore = procs[p].loadedStore

\* Once a process has completed its save, the store is its mapping.
C14_LastWriterWins ==
    \A p \in Processes :
        Saves(p) => loadConfigStore(fileStore') = Obj(RaceWritten(p, procs[p].data))

\* The file changes only in the steps of a process that is saving.
C14_OnlySavesWrite ==
    fileStore' # fileStore =>
        \E p \in Processes : procs'[p].pc = "saving" \/ procs[p].pc = "saving"

\* A lost update: both processes started on the same store; the login saved
\* token, the get completed its save after it, and token is gone.
C14_LostUpdate ==
    /\ procs[1].pc = "done" /\ procs[2].pc = "done"
    /\ Is(procs[1].name, "login <user> <pass>") /\ Is(procs[2].name, "get <id>")
    /\ procs[1].loadedStore = procs[2].loadedStore
    /\ procs[1].saved # <<>> /\ procs[2].saved # <<>>
    /\ Lookup(procs[1].saved[1], U("token")) = Str(U("abc123"))
    /\ loadConfigStore(fileStore) = Obj(procs[2].saved[1])
    /\ ~HasKey(Props(loadConfigStore(fileStore)), U("token"))

\* C14: of two invocations running at the same time, each loads the session
\* store once, at its start, and its save overwrites the file in full with
\* the variables of the saving process alone (static variables, the store as
\* it loaded it, its set entries), so that the store is the mapping of the
\* process that completed its save last; the file changes at no step other
\* than those of a save.
C14_NoLockingLastWriterWins ==
    [][C14_LoadsOnceAtStart /\ C14_LastWriterWins /\ C14_OnlySavesWrite]_vars

(***************************************************************************)
(* Properties of the steps of the executor (Spec).                         *)
(***************************************************************************)
\* The step in which the request of the current invocation is answered,
\* and the step in which it fails.
ResolveStep == pc = "awaiting" /\ pc' # "awaiting" /\ cur'.data.t = "object"
RejectStep == pc = "awaiting" /\ pc' # "awaiting" /\ cur'.data = Undefined

\* A step that calls saveConfigStore.
SaveStep == saves' # saves /\ saves' # <<>>

C15_SaveOnlyAfterSuccess ==
    SaveStep =>
        /\ ResolveStep
        /\ Truthy(cur.command.endpoint) /\ Truthy(cur.command.set)
        /\ Len(saves') = 1
        /\ \A i \in 1..Len(cur.command.set.o) :
               HasKey(saves'[1], cur.command.set.o[i].k)
        /\ \A i \in 1..Len(out') : out'[i].stream # "stderr"
        /\ loadConfigStore(fileStore') = Obj(saves'[1])

C15_FailureLeavesStore ==
    RejectStep =>
        /\ fileStore' = fileStore
        /\ saves' = <<>>
        /\ Len(out') = 1 /\ out'[1].stream = "stderr"

\* C15: the session store is rewritten only in the step that handles a
\* successful response of a command with endpoint and set; it is written
\* once, with every set entry applied and no error reported; no other step
\* changes the file. When the request fails, only the failure is logged and
\* the store is what it was.
C15_StoreFrame ==
    [][/\ C15_SaveOnlyAfterSuccess
       /\ fileStore' # fileStore => SaveStep
       /\ C15_FailureLeavesStore]_vars

\* C15 witness: a set entry was applied in memory, the next one threw, and
\* nothing was saved: the store is what the invocation loaded.
C15_Witness ==
    /\ Is(cur.name, "sync")
    /\ cur.data = Obj(<<Prop(U("v"), Str(U("x")))>>)
    /\ Lookup(cur.updatedVariables, U("seen")) = Str(U("x"))
    /\ saves = <<>>
    /\ loadConfigStore(fileStore) = Obj(cur.loadedStore)
    /\ \E i \in 1..Len(out) : out[i].stream = "stderr"

\* The request of the current invocation failed and the failure was logged.
RequestFailed ==
    /\ cur.name # <<>>
    /\ Truthy(cur.command.endpoint)
    /\ cur.data = Undefined
    /\ pc \in {"exec", "done"}

\* C16 as stated: after a request error has been logged the invocation ends;
\* no later step runs and the execute command of the command is not started.
C16_ErrorEndsInvocation ==
    RequestFailed =>
        /\ pc = "done"
        /\ spawned = <<>>
        /\ \A i \in 1..Len(out) : out[i].kind # "exec"

\* C17 as stated: the shell command that is started is the execute template
\* with every $k replaced by the scope value of k (argument, then store,
\* then static, else empty).
C17_ExecuteResolved ==
    spawned # <<>> => spawned = <<U("echo ") \o Layered(U("id"))>>

\* C18 as stated (SpecFaulty): the method is the text of the resolved
\* endpoint before its first space and the URL is the whole remainder, also
\* when the remainder holds a space.
C18_SplitOnFirstSpace ==
    request # <<>> =>
        /\ request[1].method \in {Str(U("GET")), Str(U("POST"))}
        /\ request[1].url = Str(LayeredUrl)

\* C19 (SpecFaulty): with a scope variable named data, every $data.<path> of
\* a response template is still replaced by the value extracted from the
\* response body; the variable neither shadows nor alters it.
C19_DataPathNotShadowed ==
    (HasKey(config.variables, U("data")) /\ Answered /\ PlainData) =>
        /\ (Is(cur.name, "get <id>") /\ HasKey(cur.data.o, U("v"))) =>
               out[1] = Log("response",
                            Layered(U("id")) \o U(": ") \o Displayed(DataField(U("v"))))
        /\ (Is(cur.name, "get list") /\ HasKey(cur.data.o, U("a"))) =>
               out = <<Log("response", U("first: x"))>>

\* C19 witness: the static variable data is D and the body's v is shown.
C19_Witness ==
    /\ Lookup(config.variables, U("data")) = Str(U("D"))
    /\ Answered
    /\ Is(cur.name, "get <id>")
    /\ cur.data = Obj(<<Prop(U("v"), Str(U("x")))>>)
    /\ out[1] = Log("response", U("7: x"))

\* The keys the set clauses of the document name, and the keys the session
\* store may hold before the first invocation.
SetKeys == {U("token"), U("v"), U("last"), U("seen"), U("deep")}
InitialStoreKeys == {U("id")}

\* C20 as stated (Spec): after any sequence of invocations the session store
\* holds only keys named by a set clause or held initially; static variables
\* and invocation arguments are never copied into it.
C20_StoreHoldsOnlySetKeys ==
    fileStore.exists =>
        \A i \in 1..Len(Props(loadConfigStore(fileStore))) :
            Props(loadConfigStore(fileStore))[i].k \in SetKeys \cup InitialStoreKeys

\* The identifiers str names: the matches of /\$([a-zA-Z_]+)/g.
RECURSIVE Names(_)
Names(str) ==
    LET i == IndexOf(str, U("$"))
        n == RunLen(From(str, i + 1), NameChars)
    IN  IF i = 0 THEN {}
        ELSE IF n > 0
        THEN {SubSeq(str, i + 1, i + n)} \cup Names(From(str, i + n + 1))
        ELSE Names(From(str, i + 1))

\* The identifiers the response template and the set templates of a command
\* name.
TemplateNames(command) ==
    (IF Truthy(command.response) THEN Names(command.response.s) ELSE {})
    \cup (IF Truthy(command.set)
          THEN UNION {Names(command.set.o[i].v.s) : i \in 1..Len(command.set.o)}
          ELSE {})

\* The variables makeRequest of the current invocation started with.
StartVariables == MergeStore(config.variables, cur.loadedStore)

\* The variables a second run may differ in, and the values it may give them.
OtherNames == {U("base"), U("id"), U("token")}
OtherValues == {<<>>, U("z")}

\* What the current invocation showed for its response template, and what a
\* run with the variables other shows for the same body.
ShownNow == IF out # <<>> /\ out[1].kind = "response" THEN Str(out[1].text) ELSE TypeError
ShownWith(other) == TryResponse(cur.command, other, cur.args, cur.data)

\* The value the set clause of the current invocation wrote for key, and the
\* value a run with the variables other writes for the same body.
WrittenNow(key) == Lookup(cur.updatedVariables, key)
WrittenWith(other, key) ==
    Lookup(TrySet(cur.command, other, cur.args, cur.data, ShownWith(other)).vars,
           key)

\* C21 as stated (Spec): response data is never interpreted as a template.
\* When the request of the current invocation was answered, a run of the same
\* command with the same arguments and the same body, whose variables differ
\* only in one variable that the response and set templates do not name,
\* shows the same text and writes the same values by set, whatever
\* placeholder tokens the body holds.
C21_DataNeverTemplate ==
    Answered =>
        \A k \in OtherNames \ TemplateNames(cur.command) :
        \A v \in OtherValues :
            /\ Truthy(cur.command.response) =>
                   ShownWith(Assign(StartVariables, k, Str(v))) = ShownNow
            /\ Truthy(cur.command.set) =>
                   \A i \in 1..Len(cur.command.set.o) :
                       WrittenWith(Assign(StartVariables, k, Str(v)),
                                   cur.command.set.o[i].k)
                           = WrittenNow(cur.command.set.o[i].k)

====
